---- MODULE Spec2Model ----
\* Model of the log-parser service of dekapu-dashboard:
\*   app/service/autosave_manager.py     AutoSaveManager
\*   app/utils/cloudsave_state_store.py  CloudSaveStateStore
\*   app/monitoring/log_watcher.py       VRChatLogWatcher
\*   app/utils/offset_store.py           FileOffsetStore
\*   app/service/log_watch_manager.py    LogWatcherManager
\*
\* All coroutines run on one asyncio event loop.  A coroutine keeps the loop
\* until it reaches an await that really suspends (sleep, network I/O, a lock
\* that is already held); `running` is the coroutine that owns the loop.
EXTENDS Integers, Sequences, FiniteSets, TLC

\* ---------------------------------------------------------------- bounds
MaxRequests == 2   \* _do_request tasks created
MaxTicks == 2      \* clock ticks
TickStep == 900    \* seconds per clock tick
MaxLines == 3      \* lines appended to a log file            (SpecWatch)
MaxCrashes == 1    \* kills and restarts of the process       (SpecWatch)
MaxWatchTicks == 1 \* clock ticks                             (SpecWatch)
WatchTickStep == 3601  \* seconds per clock tick              (SpecWatch)

\* ------------------------------------------------------ program constants
AUTOSAVE_INTERVAL == 1800   \* LogWatcherManager.AUTOSAVE_INTERVAL
VERSION == 2                \* CloudSaveStateStore.VERSION
ONE_HOUR == 3600            \* timedelta(hours=1): the inactivity and recency windows
enable_autosave == TRUE     \* VRChatLogWatcher.enable_autosave (the manager keeps the default)

\* ---------------------------------------------------------------- values
NoneV == <<>>                 \* Python None (an Optional is <<>> or <<x>>)
Some(x) == <<x>>
IsNone(o) == o = <<>>
Val(o) == o[1]

Users == {"u1", "u2"}
Callers == {"c1", "c2"}       \* coroutines that call AutoSaveManager.update
Files == {"output_log_1.txt"}

\* A log file of an earlier session: last written more than an hour ago, so
\* that every poll of the manager inspects it and skips it.
OldFiles == {"output_log_0.txt"} \* log files; a Watcher task is named by its file
Tasks == Callers \cup Files

\* MmpSaveData: credit_all (the cumulative counter), lastsave (the time of the
\* save, in seconds) and credit, which stands for the rest of the payload (two
\* payloads may agree on credit_all and differ).
CreditAlls == {1, 2}
Credits == {0, 1}
LastSaves == {10}
SaveData == [credit_all : CreditAlls, credit : Credits, lastsave : LastSaves]
\* MmpSaveRecord: data, user_id (sig and raw_url are functions of these here)
SaveRecord == [data : SaveData, user_id : Users]

\* AutoSaveManager._calc_data_hash: sha256 of the JSON dump of the payload,
\* a digest that depends on every field; "" (the migrated hash) is <<>>.
calc_data_hash(data) == <<"sha256", data.credit_all, data.credit, data.lastsave>>
EmptyHash == <<>>

\* CloudSaveState(credit_all, last_attempt_at, data_hash)
CloudSaveState(c, at, h) == [credit_all |-> c, last_attempt_at |-> at, data_hash |-> h]

VARIABLES
  now,            \* datetime.now(), seconds
  running,        \* the coroutine that owns the event loop, or NoneV
  pc,             \* position of each task
  arg,            \* update(): the record and ignore_rate_limit of the call
  loc,            \* update(): locals now, state, data_hash; and the outcome
  store_data,     \* CloudSaveStateStore._data : user_id -> CloudSaveState
  store_lock,     \* CloudSaveStateStore._lock : holder or NoneV
  store_file,     \* cloudsave.json on disk
  pending_tasks,  \* AutoSaveManager._pending_tasks
  requests,       \* every _do_request task created so far, in order
  log,            \* the watched log files: file name -> sequence of lines
  mtime,          \* modification time of each log file
  watcher,        \* LogWatcherManager.tasks: file name -> the Watcher and its task
  offsets,        \* FileOffsetStore._offsets : file name -> byte offset
  offsets_dirty,  \* FileOffsetStore._dirty
  offsets_file,   \* offsets.json on disk
  crashes,        \* times the process was killed and started again
  earlier,        \* per file, the lines that earlier Watchers of it classified
  main,           \* position of main()
  manager,        \* position of LogWatcherManager.run
  cancelled,      \* the tasks with a CancelledError not yet delivered
  shutdown_log,   \* the steps of the manager's finally block made so far, in order
  on_disk,        \* the log files present in the log directory
  medal_rate,     \* a MedalRateEMA: its four fields
  history,        \* its update calls since construction or the last reset: total, timestamp, result
  fresh,          \* the estimator constructed at the last reset(), or NoneV
  fresh_history,  \* the update calls made on it
  offsets_added,  \* sum of the amounts passed to add_offset since construction or the last reset
  calls           \* calls made on the estimator

wvars == <<log, mtime, watcher, offsets, offsets_dirty, offsets_file, crashes, earlier>>
mvars == <<main, manager, cancelled, shutdown_log, on_disk>>
evars == <<medal_rate, history, fresh, fresh_history, offsets_added, calls>>
vars == <<now, running, pc, arg, loc, store_data, store_lock,
          store_file, pending_tasks, requests, wvars, mvars, evars>>

\* -------------------------------------------------------------------
\* MedalRateEMA: the functions of the rate estimator
\* -------------------------------------------------------------------
\* decay_const, the default of __init__, in seconds.
decay_const == 20

\* ema_rate is a float; it is kept here in hundredths of a medal per minute.
Centi == 100

\* Calls made on the estimator, and the latest timestamp passed, in seconds.
MaxCalls == 6
MaxTime == 2

\* The totals and offsets passed to the estimator.
Totals == {0, 6}
OffsetValues == {3}

\* Division rounding toward zero, as int() does.
Trunc(x, d) == IF x >= 0 THEN x \div d ELSE -((-x) \div d)

\* int(self.ema_rate)
int(rate) == Trunc(rate, Centi)

\* alpha is kept in ten-thousandths.
AlphaUnit == 10000

\* Variant: a smoothing factor above 1.
AlphaAboveOne(dt) == 2 * AlphaUnit

\* 1 - math.exp(-dt / decay_const) for decay_const = 20; beyond the table,
\* 1 - 1 / (1 + dt / decay_const), which is below it.
alpha(dt) ==
  CASE dt = 1 -> 488 [] dt = 2 -> 952 [] dt = 3 -> 1393 [] dt = 4 -> 1813
    [] dt = 5 -> 2212 [] dt = 6 -> 2592 [] dt = 7 -> 2953 [] dt = 8 -> 3297
    [] OTHER -> AlphaUnit - Trunc(AlphaUnit * decay_const, decay_const + dt)

\* __init__
MedalRateEMA ==
  [last_timestamp |-> NoneV, last_total |-> NoneV, ema_rate |-> 0, offset_total |-> 0]

\* Variant: add_offset replaces the offset.
AddOffsetReplaces(e, value) == [e EXCEPT !.offset_total = value]

\* add_offset
add_offset(e, value) == [e EXCEPT !.offset_total = @ + value]

\* Variant: an update with dt <= 0 stores its timestamp.
StoresTimestamp(e, timestamp) == [e EXCEPT !.last_timestamp = Some(timestamp)]

\* update, lines 26-27: with dt <= 0 nothing is assigned.
AtNonIncreasing(e, timestamp) == e

\* Variant: the first update returns a rate of 0.
FirstReturnsZero == Some(0)

\* update, line 23: return None
FirstReturn == NoneV

\* update: the estimator after the call and the value returned.
update(e, total, timestamp) ==
  LET adjusted_total == total - e.offset_total IN
  IF IsNone(e.last_timestamp)
    THEN [est |-> [e EXCEPT !.last_timestamp = Some(timestamp),
                            !.last_total = Some(adjusted_total)],
          result |-> FirstReturn]
    ELSE LET dt == timestamp - Val(e.last_timestamp) IN
         IF dt <= 0
           THEN [est |-> AtNonIncreasing(e, timestamp), result |-> Some(int(e.ema_rate))]
           ELSE LET delta == adjusted_total - Val(e.last_total)
                    rate_instant == Trunc(delta * 60 * Centi, dt)
                    ema == Trunc((AlphaUnit - alpha(dt)) * e.ema_rate
                                   + alpha(dt) * rate_instant, AlphaUnit)
                IN [est |-> [e EXCEPT !.ema_rate = ema,
                                      !.last_timestamp = Some(timestamp),
                                      !.last_total = Some(adjusted_total)],
                    result |-> Some(int(ema))]

\* Variant: reset leaves the cumulative offset as it is.
ResetKeepsOffset(e) ==
  [e EXCEPT !.last_timestamp = NoneV, !.last_total = NoneV, !.ema_rate = 0]

\* reset
reset(e) ==
  [e EXCEPT !.last_timestamp = NoneV, !.last_total = NoneV, !.ema_rate = 0,
            !.offset_total = 0]

NoArg == [record |-> NoneV, ignore_rate_limit |-> FALSE]
NoLoc == [now |-> 0, state |-> NoneV, data_hash |-> EmptyHash, outcome |-> "none"]

\* The document CloudSaveStateStore._save writes.
Document(data) == [json |-> "valid", version |-> VERSION, users |-> data]
NoFile == [json |-> "absent", version |-> 0, users |-> <<>>]

\* VRChatLogWatcher.__init__ (lines 18-39) with the locals of run(); `state` is
\* the position of the task, "absent" when the manager holds no task for the file.
\*   file       : position of the open file handle
\*   offset     : the local `offset` of run()
\*   line       : index in the file of the line being processed
\*   site       : the call of autosave_mgr.update in progress
\*   opened_len : number of lines in the file when it was opened
\*   delivered  : indices of the lines passed to the classifier, in order
\*   medal_rate : the Watcher's MedalRateEMA
\*   points     : the metrics points built by _push_influxdb, in order
NoWatcher ==
  [state |-> "absent", file |-> 0, offset |-> NoneV, last_activity |-> 0, line |-> 0,
   last_record |-> NoneV, wait_leave_resume_url |-> FALSE, record_is_dirty |-> FALSE,
   site |-> "none", opened_len |-> 0, delivered |-> <<>>, ended |-> "none",
   influx_tasks |-> 0, medal_rate |-> MedalRateEMA, points |-> <<>>]

\* The process after construction, but for the state store.
InitProcess ==
  /\ now = 0
  /\ running = NoneV
  /\ pc = [t \in Tasks |-> "idle"]
  /\ arg = [t \in Tasks |-> NoArg]
  /\ loc = [t \in Tasks |-> NoLoc]
  /\ store_lock = NoneV
  /\ pending_tasks = {}
  /\ requests = <<>>
  /\ log = [f \in Files |-> <<>>]
  /\ mtime = [f \in Files |-> 0]
  /\ watcher = [f \in Files |-> NoWatcher]
  /\ offsets = <<>>
  /\ offsets_dirty = FALSE
  /\ offsets_file = <<>>
  /\ crashes = 0
  /\ earlier = [f \in Files |-> {}]
  /\ main = "wait"
  /\ manager = "poll"
  /\ cancelled = {}
  /\ shutdown_log = <<>>
  /\ on_disk = Files \cup OldFiles
  /\ medal_rate = [last_timestamp |-> NoneV, last_total |-> NoneV, ema_rate |-> 0,
                   offset_total |-> 0]
  /\ history = <<>>
  /\ fresh = NoneV
  /\ fresh_history = <<>>
  /\ offsets_added = 0
  /\ calls = 0

\* The first start: there is no state file (CloudSaveStateStore.__init__, line 27).
Init ==
  /\ store_data = <<>>
  /\ store_file = NoFile
  /\ InitProcess

\* ------------------------------------------------------------ the clock
Tick(step, ticks) ==
  /\ running = NoneV
  /\ now + step <= ticks * step
  /\ now' = now + step
  /\ UNCHANGED <<running, pc, arg, loc, store_data, store_lock,
                 store_file, pending_tasks, requests, wvars, mvars, evars>>

\* ------------------------------------------------------- asyncio.Lock
\* Lock.acquire(): a free lock is taken without suspending; a held lock
\* suspends the caller until it is released.
LockFree(lock) == IsNone(lock)

\* The event loop runs one ready coroutine at a time: t goes on when it owns
\* the loop, or when the loop is free and t is ready to be resumed.
Scheduled(t) == running \in {Some(t), NoneV}

\* --------------------------------------------- AutoSaveManager.update
\* A caller (a Watcher task) resumes on the event loop and calls
\* update(record, ignore_rate_limit); lines 28-35.
Call(t, record, ignore) ==
  /\ running = NoneV
  /\ pc[t] = "idle"
  /\ Len(requests) < MaxRequests
  /\ running' = Some(t)
  /\ arg' = [arg EXCEPT ![t] = [record |-> Some(record), ignore_rate_limit |-> ignore]]
  /\ loc' = [loc EXCEPT ![t] = [NoLoc EXCEPT !.now = now]]
  /\ pc' = [pc EXCEPT ![t] = "get_lock"]
  /\ UNCHANGED <<now, store_data, store_lock, store_file, pending_tasks, requests, wvars, mvars, evars>>

\* line 37 and CloudSaveStateStore.get, `async with self._lock`: __aenter__.
\* A held lock suspends the task (it gives up the loop and retries later).
GetLock(t) ==
  /\ pc[t] = "get_lock"
  /\ Scheduled(t)
  /\ IF LockFree(store_lock)
       THEN /\ store_lock' = Some(t)
            /\ running' = Some(t)
            /\ pc' = [pc EXCEPT ![t] = "get_read"]
       ELSE /\ running' = NoneV
            /\ UNCHANGED <<store_lock, pc>>
  /\ UNCHANGED <<now, arg, loc, store_data, store_file, pending_tasks, requests, wvars, mvars, evars>>

\* CloudSaveStateStore.get: return self._data.get(user_id), and __aexit__.
StoreGet(data, user_id) == IF user_id \in DOMAIN data THEN Some(data[user_id]) ELSE NoneV

\* Variant: leaving get() gives up the event loop (as an await that suspends would).
GetReadYield(t) ==
  /\ pc[t] = "get_read"
  /\ Scheduled(t)
  /\ running' = NoneV
  /\ loc' = [loc EXCEPT ![t].state = StoreGet(store_data, Val(arg[t].record).user_id)]
  /\ store_lock' = NoneV
  /\ pc' = [pc EXCEPT ![t] = "check"]
  /\ UNCHANGED <<now, arg, store_data, store_file, pending_tasks, requests, wvars, mvars, evars>>

GetRead(t) ==
  /\ pc[t] = "get_read"
  /\ Scheduled(t)
  /\ running' = Some(t)
  /\ loc' = [loc EXCEPT ![t].state = StoreGet(store_data, Val(arg[t].record).user_id)]
  /\ store_lock' = NoneV
  /\ pc' = [pc EXCEPT ![t] = "check"]
  /\ UNCHANGED <<now, arg, store_data, store_file, pending_tasks, requests, wvars, mvars, evars>>

\* Variant: the flag is tested the wrong way round.
RateLimitedInverted(state, at, ignore) ==
  ignore /\ at - state.last_attempt_at < AUTOSAVE_INTERVAL

\* lines 45-47: not ignore_rate_limit and now - last_attempt_at < save_interval
RateLimited(state, at, ignore) ==
  ~ignore /\ at - state.last_attempt_at < AUTOSAVE_INTERVAL

\* Variant: the comparison is the wrong way round.
RollbackInverted(state, credit_all) == credit_all > state.credit_all

\* line 54: credit_all < last_credit_all
Rollback(state, credit_all) == credit_all < state.credit_all

\* Variant: the new hash is compared with something that is never a digest.
SameDataNever(state, data_hash) == data_hash = EmptyHash

\* line 63: data_hash == last_data_hash
SameData(state, data_hash) == data_hash = state.data_hash

\* lines 39-70: the decision of update() against the state that get() returned.
Policy(state, data, at, ignore) ==
  IF IsNone(state) THEN "save"
  ELSE IF RateLimited(Val(state), at, ignore) THEN "rate_limited"
  ELSE IF Rollback(Val(state), data.credit_all) THEN "rollback"
  ELSE IF SameData(Val(state), calc_data_hash(data)) THEN "same_data"
  ELSE "save"

Check(t) ==
  /\ pc[t] = "check"
  /\ Scheduled(t)
  /\ running' = Some(t)
  /\ LET data == Val(arg[t].record).data
         d == Policy(loc[t].state, data, loc[t].now, arg[t].ignore_rate_limit)
     IN IF d = "save"
          THEN /\ loc' = [loc EXCEPT ![t].data_hash = calc_data_hash(data)]
               /\ pc' = [pc EXCEPT ![t] = "put_lock"]
          ELSE /\ loc' = [loc EXCEPT ![t].outcome = d]
               /\ pc' = [pc EXCEPT ![t] = "return"]
  /\ UNCHANGED <<now, arg, store_data, store_lock, store_file,
                 pending_tasks, requests, wvars, mvars, evars>>

\* Variant: entering the lock always suspends first, even when it is free.
PutLockYield(t) ==
  /\ pc[t] = "put_lock"
  /\ Scheduled(t)
  /\ IF running = Some(t)
       THEN /\ running' = NoneV
            /\ UNCHANGED <<store_lock, pc>>
       ELSE /\ LockFree(store_lock)
            /\ store_lock' = Some(t)
            /\ running' = Some(t)
            /\ pc' = [pc EXCEPT ![t] = "put_write"]
  /\ UNCHANGED <<now, arg, loc, store_data, store_file, pending_tasks, requests, wvars, mvars, evars>>

\* line 72 and CloudSaveStateStore.update, `async with self._lock`: __aenter__
PutLock(t) ==
  /\ pc[t] = "put_lock"
  /\ Scheduled(t)
  /\ IF LockFree(store_lock)
       THEN /\ store_lock' = Some(t)
            /\ running' = Some(t)
            /\ pc' = [pc EXCEPT ![t] = "put_write"]
       ELSE /\ running' = NoneV
            /\ UNCHANGED <<store_lock, pc>>
  /\ UNCHANGED <<now, arg, loc, store_data, store_file, pending_tasks, requests, wvars, mvars, evars>>

\* self._data[user_id] = state
StorePut(data, user_id, state) ==
  [u \in DOMAIN data \cup {user_id} |-> IF u = user_id THEN state ELSE data[u]]

\* CloudSaveStateStore._save: open(path, "w") truncates the file and json.dump
\* writes the document into it; an exception is logged and swallowed.
SaveOutcomes == {"written", "open_failed", "dump_failed"}
Partial == [json |-> "truncated", version |-> VERSION, users |-> <<>>]
_save(file, data, outcome) ==
  CASE outcome = "written" -> Document(data)
    [] outcome = "open_failed" -> file
    [] outcome = "dump_failed" -> Partial

\* Variant: the map takes the new state only when the document was written.
DataIfWritten(data, new, outcome) == IF outcome = "written" THEN new ELSE data

\* CloudSaveStateStore.update, lines 71-72: the map is assigned before _save
\* runs, and _save does not touch it, whatever its outcome.
DataAfterSave(data, new, outcome) == new

\* Variant: the state is not persisted before the request is created.
PutWriteDeferred(t, outcomes) ==
  /\ pc[t] = "put_write"
  /\ Scheduled(t)
  /\ running' = Some(t)
  /\ store_lock' = NoneV
  /\ pc' = [pc EXCEPT ![t] = "dispatch"]
  /\ UNCHANGED <<now, arg, loc, store_data, store_file, pending_tasks, requests, wvars, mvars, evars>>

\* lines 72-77, the body of CloudSaveStateStore.update, and __aexit__
PutWrite(t, outcomes) ==
  /\ pc[t] = "put_write"
  /\ Scheduled(t)
  /\ running' = Some(t)
  /\ LET r == Val(arg[t].record)
         new == StorePut(store_data, r.user_id,
                         CloudSaveState(r.data.credit_all, loc[t].now, loc[t].data_hash))
     IN \E o \in outcomes :
          /\ store_data' = DataAfterSave(store_data, new, o)
          /\ store_file' = _save(store_file, new, o)
  /\ store_lock' = NoneV
  /\ pc' = [pc EXCEPT ![t] = "dispatch"]
  /\ UNCHANGED <<now, arg, loc, pending_tasks, requests, wvars, mvars, evars>>

\* lines 80-82: create_task(self._do_request(url, user_id)); add to _pending_tasks
Dispatch(t) ==
  /\ pc[t] = "dispatch"
  /\ Scheduled(t)
  /\ running' = Some(t)
  /\ requests' = Append(requests, [user_id |-> Val(arg[t].record).user_id,
                                   status |-> "pending"])
  /\ pending_tasks' = pending_tasks \cup {Len(requests) + 1}
  /\ loc' = [loc EXCEPT ![t].outcome = "dispatched"]
  /\ pc' = [pc EXCEPT ![t] = "return"]
  /\ UNCHANGED <<now, arg, store_data, store_lock, store_file, wvars, mvars, evars>>

\* update() returns; the caller goes on to its next suspension point.
Return(t) ==
  /\ pc[t] = "return"
  /\ Scheduled(t)
  /\ running' = NoneV
  /\ pc' = [pc EXCEPT ![t] = "idle"]
  /\ arg' = [arg EXCEPT ![t] = NoArg]
  /\ loc' = [loc EXCEPT ![t] = NoLoc]
  /\ UNCHANGED <<now, store_data, store_lock, store_file, pending_tasks, requests, wvars, mvars, evars>>

\* AutoSaveManager._do_request, lines 84-107: the GET ends with a status or an
\* exception; every outcome is only logged.  The done callback discards the task.
Responses == {"200", "4xx", "5xx", "connection_error", "timeout"}
\* lines 89-107: what the task logs for a response
Logged(response) == IF response = "200" THEN "success" ELSE "failed"

\* Variant: a request that failed is issued again.
DoRequestAgain(i, response) ==
  /\ running = NoneV
  /\ i \in pending_tasks
  /\ IF Logged(response) = "failed"
       THEN /\ requests' = Append([requests EXCEPT ![i].status = "failed"],
                                  [user_id |-> requests[i].user_id, status |-> "pending"])
            /\ pending_tasks' = (pending_tasks \ {i}) \cup {Len(requests) + 1}
       ELSE /\ requests' = [requests EXCEPT ![i].status = Logged(response)]
            /\ pending_tasks' = pending_tasks \ {i}
  /\ UNCHANGED <<now, running, pc, arg, loc, store_data, store_lock, store_file, wvars, mvars, evars>>

DoRequest(i, response) ==
  /\ running = NoneV
  /\ i \in pending_tasks
  /\ requests' = [requests EXCEPT ![i].status = Logged(response)]
  /\ pending_tasks' = pending_tasks \ {i}
  /\ UNCHANGED <<now, running, pc, arg, loc, store_data, store_lock, store_file, wvars, mvars, evars>>

Update(t) ==
  \/ GetLock(t) \/ GetRead(t) \/ Check(t) \/ PutLock(t) \/ PutWrite(t, {"written"})
  \/ Dispatch(t) \/ Return(t)

Next ==
  \/ Tick(TickStep, MaxTicks)
  \/ \E t \in Callers, r \in SaveRecord, i \in BOOLEAN : Call(t, r, i)
  \/ \E t \in Callers : Update(t)
  \/ \E i \in pending_tasks, r \in Responses : DoRequest(i, r)

Spec == Init /\ [][Next]_vars

\* ===================================================================
\* The log files, the Watcher, the offset store, the manager's poll
\* ===================================================================
\* A line of a log file: an empty line, a line that carries no event, a line
\* with the marker of a world leave or of the application quitting, or a
\* save-data URL with its payload.
WatchData ==
  {[credit_all |-> 1, credit |-> 0, lastsave |-> 10],
   [credit_all |-> 2, credit |-> 0, lastsave |-> 20]}
Lines ==
  {[kind |-> k, data |-> NoneV, value |-> 0] : k \in {"blank", "noise", "leave", "quit"}}
    \cup {[kind |-> "save", data |-> Some(d), value |-> 0] : d \in WatchData}
\* The lines the game writes in the runs of SpecWatch (every kind but the quit
\* marker) and of SpecCrash (empty lines, lines without event, one save-data URL).
WatchLines == {l \in Lines : l.kind # "quit"}
CrashLines ==
  {l \in Lines : l.kind \in {"blank", "noise"}
                   \/ (l.kind = "save" /\ Val(l.data).credit_all = 1)}

\* The lines written in the runs of SpecQuit: the event markers and the save-data
\* URLs.
QuitLines == {l \in Lines : l.kind \in {"leave", "quit", "save"}}

\* The user id carried by the save-data URLs of the watched files.
WatchUser == "u1"

\* Bytes of a line in the file, its newline included.
LineBytes(line) ==
  CASE line.kind = "blank" -> 1
    [] line.kind = "save" -> 3
    [] OTHER -> 2

RECURSIVE EndByte(_, _)
\* The byte offset just after line i of the file (0 for i = 0): file.tell()
\* after that line was read.
EndByte(content, i) ==
  IF i = 0 THEN 0 ELSE EndByte(content, i - 1) + LineBytes(content[i])
StartByte(content, i) == EndByte(content, i - 1)
Size(content) == EndByte(content, Len(content))

\* file.readline() at byte `pos`: the index of the line that starts there, 0 at
\* end-of-file.
readline(content, pos) ==
  IF \E i \in 1..Len(content) : StartByte(content, i) = pos
    THEN CHOOSE i \in 1..Len(content) : StartByte(content, i) = pos
    ELSE 0

\* The game appends a line to its log file.  The Watcher sees the file only when
\* it reads, so an append while a coroutine runs is taken at its next suspension.
AppendLine(f, line) ==
  /\ running = NoneV
  /\ Len(log[f]) < MaxLines
  /\ log' = [log EXCEPT ![f] = Append(@, line)]
  /\ mtime' = [mtime EXCEPT ![f] = now]
  /\ UNCHANGED <<now, running, pc, arg, loc, store_data, store_lock, store_file,
                 pending_tasks, requests, watcher, offsets, offsets_dirty,
                 offsets_file, crashes, earlier, mvars, evars>>

\* LogWatcherManager.run, lines 50-74: one pass of the poll loop over a file.
\* A file not modified for an hour is skipped; a Watcher is created when the
\* file has no task or a finished one.
\* Variant: a Watcher is started at every poll, whatever the task registered.
StartsAlways(w) == TRUE

\* line 63: fname not in self.tasks or self.tasks[fname].done()
NoTaskOrDone(w) == w.state \in {"absent", "done"}

ManagerPoll(f) ==
  /\ running = NoneV
  /\ manager = "poll"
  /\ f \in on_disk
  /\ ~(mtime[f] < now - ONE_HOUR)
  /\ NoTaskOrDone(watcher[f])
  /\ watcher' = [watcher EXCEPT ![f] = [NoWatcher EXCEPT !.state = "created"]]
  /\ earlier' = [earlier EXCEPT ![f] = @ \cup {watcher[f].delivered[i] :
                                               i \in 1..Len(watcher[f].delivered)}]
  /\ UNCHANGED <<now, running, pc, arg, loc, store_data, store_lock, store_file,
                 pending_tasks, requests, log, mtime, offsets, offsets_dirty,
                 offsets_file, crashes, mvars, evars>>

\* Variant: a file seen for the first time is read from its beginning.
SeekFromStart(offset, content) == IF IsNone(offset) THEN 0 ELSE Val(offset)

\* Variant: the stored offset is not used.
SeekIgnoresOffset(offset, content) == Size(content)

\* _open_file_and_seek, lines 105-112: seek(offset), or seek(0, 2) (end-of-file)
\* when there is no offset.
_open_file_and_seek(offset, content) ==
  IF IsNone(offset) THEN Size(content) ELSE Val(offset)

\* run(), lines 46-55: offset = await offset_store.get(fname); open and seek.
\* open() may raise FileNotFoundError or PermissionError, which ends the task.
OpenOutcomes == {"opened", "FileNotFoundError", "PermissionError"}
WatcherStart(f) ==
  /\ f \notin cancelled
  /\ running = NoneV
  /\ watcher[f].state = "created"
  /\ \E o \in OpenOutcomes :
       LET offset == StoreGet(offsets, f) IN
       IF o = "opened"
         THEN /\ watcher' = [watcher EXCEPT ![f].state = "loop",
                                            ![f].offset = offset,
                                            ![f].file = _open_file_and_seek(offset, log[f]),
                                            ![f].last_activity = now,
                                            ![f].opened_len = Len(log[f])]
              /\ running' = Some(f)
         ELSE /\ watcher' = [watcher EXCEPT ![f].state = "done", ![f].offset = offset,
                                            ![f].ended = "error"]
              /\ running' = NoneV
  /\ UNCHANGED <<now, pc, arg, loc, store_data, store_lock, store_file, pending_tasks,
                 requests, log, mtime, offsets, offsets_dirty, offsets_file, crashes,
                 earlier, mvars, evars>>

\* Variant: a last record counts as unsaved whether or not it is marked dirty.
HasLastRecord(w) == ~IsNone(w.last_record)

\* run(), lines 81-100: the except clauses and the finally block.  The file is
\* closed; with metrics writes in flight the Watcher waits for them, at most 5 s.
Finally(w, how) ==
  [w EXCEPT !.state = IF w.influx_tasks > 0 THEN "finally_wait" ELSE "done",
            !.ended = how]

\* has_unsaved_record, lines 41-43
has_unsaved_record(w) == ~IsNone(w.last_record) /\ w.record_is_dirty

\* The Watcher calls autosave_mgr.update(record, ignore_rate_limit) from `site`.
CallUpdate(f, w, record, ignore, site) ==
  /\ watcher' = [watcher EXCEPT ![f] = [w EXCEPT !.state = "update", !.site = site]]
  /\ arg' = [arg EXCEPT ![f] = [record |-> Some(record), ignore_rate_limit |-> ignore]]
  /\ loc' = [loc EXCEPT ![f] = [NoLoc EXCEPT !.now = now]]
  /\ pc' = [pc EXCEPT ![f] = "get_lock"]
  /\ running' = Some(f)

\* Variant: the offset is not stored when a line is read.
OffsetNotSet(offs, filename, offset) == offs

\* FileOffsetStore.set, lines 63-66: self._offsets[filename] = offset
OffsetSet(offs, filename, offset) ==
  [g \in DOMAIN offs \cup {filename} |-> IF g = filename THEN offset ELSE offs[g]]

\* FileOffsetStore.remove, lines 68-71: self._offsets.pop(filename, None)
OffsetRemove(offs, filename) == [g \in DOMAIN offs \ {filename} |-> offs[g]]

\* Variant: the Watcher removes its file's entry when it stops for inactivity.
OffsetsRemovedAtIdleStop(offs, filename) == OffsetRemove(offs, filename)

\* run(), lines 62-72: the idle-timeout branch makes no call of the offset store.
OffsetsAtIdleStop(offs, filename) == offs

\* run(), lines 57-80: one turn of the loop.  readline() may raise OSError, which
\* ends the task.  An empty read (end-of-file or an empty line) stops the Watcher
\* after an hour without a line and sleeps one second otherwise; a non-empty
\* line has its end offset stored, then is processed.
ReadOutcomes == {"read", "OSError"}
ReadLine(f) ==
  /\ f \notin cancelled
  /\ watcher[f].state = "loop"
  /\ Scheduled(f)
  /\ \E o \in ReadOutcomes :
       LET w == watcher[f]
           i == readline(log[f], w.file)
           pos == IF i = 0 THEN w.file ELSE EndByte(log[f], i)
       IN
       IF o = "OSError"
         THEN /\ watcher' = [watcher EXCEPT ![f] = Finally(w, "error")]
              /\ running' = NoneV
              /\ UNCHANGED <<pc, arg, loc, offsets, offsets_dirty>>
       ELSE IF i = 0 \/ log[f][i].kind = "blank"
         THEN IF now - w.last_activity > ONE_HOUR
                THEN IF enable_autosave /\ has_unsaved_record(w)
                       THEN /\ CallUpdate(f, [w EXCEPT !.file = pos],
                                          Val(w.last_record), TRUE, "idle")
                            /\ offsets' = OffsetsAtIdleStop(offsets, f)
                            /\ offsets_dirty' = (offsets_dirty \/ offsets' # offsets)
                       ELSE /\ watcher' = [watcher EXCEPT
                                           ![f] = Finally([w EXCEPT !.file = pos], "idle")]
                            /\ running' = NoneV
                            /\ offsets' = OffsetsAtIdleStop(offsets, f)
                            /\ offsets_dirty' = (offsets_dirty \/ offsets' # offsets)
                            /\ UNCHANGED <<pc, arg, loc>>
                ELSE /\ watcher' = [watcher EXCEPT ![f].file = pos]
                     /\ running' = NoneV
                     /\ UNCHANGED <<pc, arg, loc, offsets, offsets_dirty>>
       ELSE /\ offsets' = OffsetSet(offsets, f, pos)
            /\ offsets_dirty' = TRUE
            /\ watcher' = [watcher EXCEPT ![f].state = "process", ![f].file = pos,
                                          ![f].line = i, ![f].last_activity = now]
            /\ running' = Some(f)
            /\ UNCHANGED <<pc, arg, loc>>
  /\ UNCHANGED <<now, store_data, store_lock, store_file, pending_tasks, requests,
                 log, mtime, offsets_file, crashes, earlier, mvars, evars>>

\* The save-data URLs the classifier discards: the data parameter is not JSON
\* or fails the schema, or one of data, user_id and sig is missing or blank.
Malformed ==
  {"save_invalid_json", "save_schema", "save_no_data", "save_blank_data",
   "save_no_user_id", "save_blank_user_id", "save_no_sig", "save_blank_sig"}

\* The lines with a marker and nothing to parse, and their events.
Markers == {"leave", "quit", "cloud_load", "session_reset", "world_join"}
MarkerEvent(kind) ==
  CASE kind = "leave" -> "DEKAPU_WORLD_LEAVE"
    [] kind = "quit" -> "VRCHAT_APP_QUIT"
    [] kind = "cloud_load" -> "DEKAPU_CLOUD_LOAD"
    [] kind = "session_reset" -> "DEKAPU_SESSION_RESET"
    [] kind = "world_join" -> "DEKAPU_WORLD_JOIN"

\* Variant: a malformed save-data URL is classified as a save-data event.
ParseAccepts(kind) == kind = "save" \/ kind \in Malformed

\* The kinds of line the classifier turns into a save-data event.
IsSaveData(kind) == kind = "save"

\* The classifier: the event of a line, with the record of a save-data line,
\* the amount of a stock-overflow line, the time of a timestamp line.
parse_line(f, line) ==
  CASE line.kind \in Markers ->
         Some([event |-> MarkerEvent(line.kind), record |-> NoneV, value |-> NoneV])
    [] line.kind = "stockover" ->
         Some([event |-> "DEKAPU_JP_STOCKOVER", record |-> NoneV,
               value |-> Some(line.value)])
    [] line.kind = "stockover_bad" ->
         Some([event |-> "DEKAPU_JP_STOCKOVER", record |-> NoneV, value |-> NoneV])
    [] line.kind = "timestamp" ->
         Some([event |-> "TIMESTAMP_UPDATE", record |-> NoneV,
               value |-> Some(line.value)])
    [] IsSaveData(line.kind) ->
         Some([event |-> "DEKAPU_SAVEDATA_UPDATE",
               record |-> IF IsNone(line.data) THEN NoneV
                          ELSE Some([data |-> Val(line.data), user_id |-> WatchUser]),
               value |-> NoneV])
    [] OTHER -> NoneV

\* Variant: the read loop is left once the quit event has been handled.
StopAfterQuit(event) == IF event = "VRCHAT_APP_QUIT" THEN "done" ELSE "loop"

\* run(), lines 76-80: after _process_line the loop goes on to the next
\* readline(), whatever the event was; no event breaks the loop.
AfterEvent(event) == "loop"

\* Variant: the pending world-leave flag is not cleared by the forced save.
ClearLeaveFlagNot(w) == w

\* line 187: self.wait_leave_resume_url = False
ClearLeaveFlag(w) == [w EXCEPT !.wait_leave_resume_url = FALSE]

\* Variant: the join of the world does not reset the estimator.
ResetsRateNotOnJoin(event) ==
  event \in {"DEKAPU_CLOUD_LOAD", "DEKAPU_SESSION_RESET"}

\* _handle_event, lines 135-149: the events that call medal_rate.reset().
ResetsRate(event) ==
  event \in {"DEKAPU_CLOUD_LOAD", "DEKAPU_SESSION_RESET", "DEKAPU_WORLD_JOIN"}

\* calc_medal_rate_ema, lines 200-206: the estimator is given the record's
\* credit_all and lastsave.
calc_medal_rate_ema(w, record) ==
  update(w.medal_rate, record.data.credit_all, record.data.lastsave)

\* Variant: the point's time is the wall clock.
PointTimeNow(record) == now

\* _push_influxdb, line 216: .time(record.data.lastsave, WritePrecision.NS)
PointTime(record) == record.data.lastsave

\* _push_influxdb, lines 220-221: `if credit_all_delta_1m:` adds the field; None
\* and 0 are both false.
DeltaField(credit_all_delta_1m) ==
  IF ~IsNone(credit_all_delta_1m) /\ Val(credit_all_delta_1m) # 0
    THEN credit_all_delta_1m ELSE NoneV

\* _push_influxdb, lines 208-224: the point built for a record; `rate` is what
\* the estimator returned and `line` the line the record came from.
_push_influxdb(w, record, credit_all_delta_1m) ==
  [line |-> w.line, user |-> record.user_id, time |-> PointTime(record),
   rate |-> credit_all_delta_1m,
   credit_all_delta_1m |-> DeltaField(credit_all_delta_1m)]

\* _process_line and _handle_event, lines 116-198, up to the call of update().
\* The metrics write a save-data line starts (lines 173-180) is over before the
\* Watcher looks at its tasks again ("written"), or still in flight then.
WriteOutcomes == {"written", "in_flight"}
Process(f, writes) ==
  /\ watcher[f].state = "process"
  /\ Scheduled(f)
  /\ LET w == [watcher[f] EXCEPT !.delivered = Append(@, watcher[f].line)]
         result == parse_line(f, log[f][w.line])
         event == IF IsNone(result) THEN "none" ELSE Val(result).event
     IN
     CASE event = "DEKAPU_WORLD_LEAVE" ->
            /\ watcher' = [watcher EXCEPT ![f] = [w EXCEPT !.state = AfterEvent(event),
                                                           !.wait_leave_resume_url = TRUE]]
            /\ running' = Some(f)
            /\ UNCHANGED <<pc, arg, loc>>
       [] event = "VRCHAT_APP_QUIT" ->
            IF enable_autosave /\ has_unsaved_record(w)
              THEN CallUpdate(f, w, Val(w.last_record), TRUE, "quit")
              ELSE /\ watcher' = [watcher EXCEPT ![f] = [w EXCEPT !.state = AfterEvent(event)]]
                   /\ running' = Some(f)
                   /\ UNCHANGED <<pc, arg, loc>>
       [] event = "DEKAPU_JP_STOCKOVER" ->
            LET value == Val(result).value
                w1 == IF ~IsNone(value) /\ Val(value) # 0
                        THEN [w EXCEPT !.medal_rate = add_offset(@, Val(value))]
                        ELSE w
            IN /\ watcher' = [watcher EXCEPT ![f] = [w1 EXCEPT !.state = AfterEvent(event)]]
               /\ running' = Some(f)
               /\ UNCHANGED <<pc, arg, loc>>
       [] ResetsRate(event) ->
            /\ watcher' = [watcher EXCEPT ![f] = [w EXCEPT !.state = AfterEvent(event),
                                                           !.medal_rate = reset(@)]]
            /\ running' = Some(f)
            /\ UNCHANGED <<pc, arg, loc>>
       [] event = "DEKAPU_SAVEDATA_UPDATE" /\ IsNone(Val(result).record) ->
            /\ watcher' = [watcher EXCEPT ![f] = [w EXCEPT !.state = AfterEvent(event)]]
            /\ running' = Some(f)
            /\ UNCHANGED <<pc, arg, loc>>
       [] event = "DEKAPU_SAVEDATA_UPDATE" /\ ~IsNone(Val(result).record) ->
            \E write \in writes :
            LET record == Val(Val(result).record)
                delta == calc_medal_rate_ema(w, record)
                w1 == [w EXCEPT !.last_record = Some(record),
                                !.medal_rate = delta.est,
                                !.points = Append(@, _push_influxdb(w, record, delta.result)),
                                !.influx_tasks = IF write = "in_flight" THEN @ + 1 ELSE @]
            IN IF ~enable_autosave
                 THEN /\ watcher' = [watcher EXCEPT ![f] = [w1 EXCEPT !.state = AfterEvent(event)]]
                      /\ running' = Some(f)
                      /\ UNCHANGED <<pc, arg, loc>>
               ELSE IF w1.wait_leave_resume_url
                 THEN CallUpdate(f, ClearLeaveFlag(w1), record, TRUE, "leave")
               ELSE CallUpdate(f, w1, record, FALSE, "normal")
       [] OTHER ->
            /\ watcher' = [watcher EXCEPT ![f] = [w EXCEPT !.state = AfterEvent(event)]]
            /\ running' = Some(f)
            /\ UNCHANGED <<pc, arg, loc>>
  /\ UNCHANGED <<now, store_data, store_lock, store_file, pending_tasks, requests,
                 log, mtime, offsets, offsets_dirty, offsets_file, crashes, earlier, mvars, evars>>

\* AutoSaveManager.update has no return statement with a value: whatever it
\* decided, the caller's `if await self.autosave_mgr.update(...)` sees None.
update_result(outcome) == FALSE

\* The Watcher after update() returned: lines 68-71, 162-165, 188-198.
AfterUpdate(f) ==
  /\ watcher[f].state = "update"
  /\ pc[f] = "return"
  /\ Scheduled(f)
  /\ LET w == watcher[f]
         saved == update_result(loc[f].outcome)
     IN
     CASE w.site = "idle" ->
            /\ watcher' = [watcher EXCEPT
                           ![f] = Finally([w EXCEPT !.site = "none"], "idle")]
            /\ running' = NoneV
       [] w.site = "normal" ->
            /\ watcher' = [watcher EXCEPT ![f].state = "loop", ![f].site = "none",
                                          ![f].record_is_dirty = ~saved]
            /\ running' = Some(f)
       [] OTHER ->
            /\ watcher' = [watcher EXCEPT ![f].state =
                                             AfterEvent(IF w.site = "quit"
                                                          THEN "VRCHAT_APP_QUIT"
                                                          ELSE "DEKAPU_SAVEDATA_UPDATE"),
                                          ![f].site = "none",
                                          ![f].record_is_dirty =
                                             IF saved THEN FALSE ELSE w.record_is_dirty]
            /\ running' = Some(f)
  /\ pc' = [pc EXCEPT ![f] = "idle"]
  /\ arg' = [arg EXCEPT ![f] = NoArg]
  /\ loc' = [loc EXCEPT ![f] = NoLoc]
  /\ UNCHANGED <<now, store_data, store_lock, store_file, pending_tasks, requests,
                 log, mtime, offsets, offsets_dirty, offsets_file, crashes, earlier, mvars, evars>>

\* FileOffsetStore._autosave_loop and _save, lines 38-56: every
\* autosave_interval seconds a dirty store is written to a temporary file that
\* then replaces offsets.json; a failure is logged and leaves the file as it was.
OffsetSaveOutcomes == {"replaced", "failed"}
OffsetAutosave ==
  /\ running = NoneV
  /\ manager \in {"poll", "gather"}
  /\ offsets_dirty
  /\ \E o \in OffsetSaveOutcomes :
       IF o = "replaced"
         THEN offsets_file' = offsets /\ offsets_dirty' = FALSE
         ELSE UNCHANGED <<offsets_file, offsets_dirty>>
  /\ UNCHANGED <<now, running, pc, arg, loc, store_data, store_lock, store_file,
                 pending_tasks, requests, log, mtime, watcher, offsets, crashes, earlier, mvars, evars>>

\* Variant: the migration keeps no record of the older schema.
MigrateDrops(users) == <<>>

\* CloudSaveStateStore.__init__, lines 37-43: a document without version tag is
\* version 1; each of its records gets dataHash = "".
Migrate(users) ==
  [u \in DOMAIN users |->
     CloudSaveState(users[u].credit_all, users[u].last_attempt_at, EmptyHash)]

\* CloudSaveStateStore.__init__, lines 27-63: a missing or unreadable file gives
\* an empty store, as does a document of an unknown version; a version 1
\* document gives its users migrated, a version 2 document its users.
LoadStore(file) ==
  IF file.json # "valid" THEN <<>>
  ELSE IF file.version = 1 THEN Migrate(file.users)
  ELSE IF file.version = VERSION THEN file.users
  ELSE <<>>

\* CloudSaveStateStore.__init__, lines 59-60: after a migration the document is
\* written back at once, by _save; the file is left alone otherwise.
AfterLoad(file, outcome) ==
  IF file.json = "valid" /\ file.version = 1
    THEN _save(file, LoadStore(file), outcome)
    ELSE file

\* The process is killed at any point and started again: every task and all
\* memory are lost, and the stores are loaded from their files
\* (FileOffsetStore._load, CloudSaveStateStore.__init__).
Restart(found, outcome) ==
  /\ crashes < MaxCrashes
  /\ crashes' = crashes + 1
  /\ running' = NoneV
  /\ pc' = [t \in Tasks |-> "idle"]
  /\ arg' = [t \in Tasks |-> NoArg]
  /\ loc' = [t \in Tasks |-> NoLoc]
  /\ store_data' = LoadStore(found)
  /\ store_file' = AfterLoad(found, outcome)
  /\ store_lock' = NoneV
  /\ pending_tasks' = {}
  /\ offsets' = offsets_file
  /\ offsets_dirty' = FALSE
  /\ earlier' = [f \in Files |-> earlier[f] \cup {watcher[f].delivered[i] :
                                                   i \in 1..Len(watcher[f].delivered)}]
  /\ watcher' = [f \in Files |-> NoWatcher]
  /\ UNCHANGED <<now, requests, log, mtime, offsets_file, mvars, evars>>

\* The process is killed between two steps of its tasks: the state file is as
\* the last _save left it.
Crash == \E o \in SaveOutcomes : Restart(store_file, o)

\* The process is killed inside _save, after open(path, "w") has truncated the
\* file and before json.dump has written all of the document.
CrashInSave ==
  /\ \E t \in Tasks : pc[t] = "put_write" /\ Scheduled(t)
  /\ \E o \in SaveOutcomes : Restart(Partial, o)

Watch(f) ==
  \/ ManagerPoll(f) \/ WatcherStart(f) \/ ReadLine(f) \/ Process(f, {"written"})
  \/ AfterUpdate(f)
  \/ GetLock(f) \/ GetRead(f) \/ Check(f) \/ PutLock(f) \/ PutWrite(f, {"written"})
  \/ Dispatch(f)

\* The remote calls the Watchers' saves create stay pending in these runs: their
\* completion touches only the request log (see Spec).
NextWatch ==
  \/ Tick(WatchTickStep, MaxWatchTicks)
  \/ \E f \in Files, line \in WatchLines : AppendLine(f, line)
  \/ \E f \in Files : Watch(f)
  \/ OffsetAutosave

\* The manager with its Watchers, the process running without interruption.
SpecWatch == Init /\ [][NextWatch]_vars

NextCrash ==
  \/ Tick(WatchTickStep, MaxWatchTicks)
  \/ \E f \in Files, line \in CrashLines : AppendLine(f, line)
  \/ \E f \in Files : Watch(f)
  \/ OffsetAutosave
  \/ Crash

\* The same, with the process killed and restarted at most MaxCrashes times.
SpecCrash == Init /\ [][NextCrash]_vars

\* -------------------------------------------------------------------
\* The state store over the files it may find, with writes that fail
\* -------------------------------------------------------------------
\* A record of the older schema: creditAll and lastAttemptAt, no dataHash.
OldState(c, at) == [credit_all |-> c, last_attempt_at |-> at]

\* A document of the older schema: the users at top level, no version tag.
OldDocument(users) == [json |-> "valid", version |-> 1, users |-> users]

\* The files the store may find when it is constructed: none, documents of the
\* older schema, a document of the current one, a document of a version not
\* known, a file that is not JSON.
StoredFiles ==
  {NoFile, Partial}
    \cup {OldDocument([u \in Users |-> OldState(c, 0)]) : c \in CreditAlls}
    \cup {Document([u \in Users |-> CloudSaveState(1, 0, calc_data_hash(d))]) :
            d \in {e \in SaveData : e.credit_all = 1 /\ e.credit = 0}}
    \cup {[json |-> "valid", version |-> VERSION + 1, users |-> <<>>]}

\* The start of the process over a file found on disk.
InitStore ==
  /\ \E found \in StoredFiles, o \in SaveOutcomes :
       /\ store_data = LoadStore(found)
       /\ store_file = AfterLoad(found, o)
  /\ InitProcess

\* AutoSaveManager.update with every outcome of the store's _save.
UpdateStore(t) ==
  \/ GetLock(t) \/ GetRead(t) \/ Check(t) \/ PutLock(t) \/ PutWrite(t, SaveOutcomes)
  \/ Dispatch(t) \/ Return(t)

\* The caller of the runs of SpecStore, the records it passes (those of one
\* user) and the response the remote calls get.
StoreCallers == {"c1"}
StoreRecords == {r \in SaveRecord : r.user_id = "u1"}
StoreResponses == {"200"}

NextStore ==
  \/ Tick(TickStep, MaxTicks)
  \/ \E t \in StoreCallers, r \in StoreRecords, i \in BOOLEAN : Call(t, r, i)
  \/ \E t \in StoreCallers : UpdateStore(t)
  \/ \E i \in pending_tasks, r \in StoreResponses : DoRequest(i, r)
  \/ Crash
  \/ CrashInSave

\* The Autosave Manager over a store whose file may be of any kind and whose
\* writes may fail, the process killed and restarted at most MaxCrashes times.
SpecStore == InitStore /\ [][NextStore]_vars

\* The steps of a Watcher and of its save, with every outcome of the state
\* store's _save.
WatchFailing(f) ==
  \/ ManagerPoll(f) \/ WatcherStart(f) \/ ReadLine(f) \/ Process(f, {"written"})
  \/ AfterUpdate(f)
  \/ GetLock(f) \/ GetRead(f) \/ Check(f) \/ PutLock(f) \/ PutWrite(f, SaveOutcomes)
  \/ Dispatch(f)

\* The lines written in the runs of SpecFailing: the save-data URLs.
FailingLines == {l \in Lines : l.kind = "save"}

NextFailing ==
  \/ Tick(WatchTickStep, MaxWatchTicks)
  \/ \E f \in Files, line \in FailingLines : AppendLine(f, line)
  \/ \E f \in Files : WatchFailing(f)
  \/ OffsetAutosave

\* The manager with its Watchers, the writes of both stores' files failing or not.
SpecFailing == Init /\ [][NextFailing]_vars

NextQuit ==
  \/ Tick(WatchTickStep, MaxWatchTicks)
  \/ \E f \in Files, line \in QuitLines : AppendLine(f, line)
  \/ \E f \in Files : Watch(f)
  \/ OffsetAutosave

\* The manager with its Watchers over files in which the application quits.
SpecQuit == Init /\ [][NextQuit]_vars

\* ===================================================================
\* The Watcher's handling of the events of a file
\* ===================================================================
\* The payloads of the save-data URLs in the runs of SpecEvents: the counter
\* grows between two saves, or stands still.
EventData ==
  {[credit_all |-> 1, credit |-> 0, lastsave |-> 10],
   [credit_all |-> 2, credit |-> 0, lastsave |-> 20],
   [credit_all |-> 1, credit |-> 0, lastsave |-> 20]}

\* The time carried by a timestamp line.
StampValue == 5

\* The lines written in the runs of SpecEvents: the markers of the events that
\* reset the estimator, of a world leave, stock-overflow lines with an amount
\* of 3, of 0 and with an unreadable amount, a timestamp line, save-data URLs.
EventLines ==
  {[kind |-> k, data |-> NoneV, value |-> 0] :
      k \in {"cloud_load", "session_reset", "world_join", "leave", "stockover_bad"}}
    \cup {[kind |-> "stockover", data |-> NoneV, value |-> v] : v \in {0, 3}}
    \cup {[kind |-> "timestamp", data |-> NoneV, value |-> StampValue]}
    \cup {[kind |-> "save", data |-> Some(d), value |-> 0] : d \in EventData}

NextEvents ==
  \/ \E f \in Files, line \in EventLines : AppendLine(f, line)
  \/ \E f \in Files : Watch(f)

\* One Watcher over a file with every event the Watcher handles.
SpecEvents == Init /\ [][NextEvents]_vars

\* The lines written in the runs of SpecClassify: save-data URLs the classifier
\* discards (those whose data parameter is readable carry its payload), a
\* well-formed save-data URL, a line without event.
ClassifyLines ==
  {[kind |-> k, data |-> NoneV, value |-> 0] :
      k \in {"noise", "save_invalid_json", "save_schema", "save_no_data",
             "save_blank_data"}}
    \cup {[kind |-> k, data |-> Some(d), value |-> 0] :
            k \in {"save", "save_no_user_id", "save_blank_user_id", "save_no_sig",
                   "save_blank_sig"},
            d \in {e \in EventData : e.lastsave = 10}}

NextClassify ==
  \/ \E f \in Files, line \in ClassifyLines : AppendLine(f, line)
  \/ \E f \in Files : Watch(f)

\* One Watcher over a file with malformed save-data URLs.
SpecClassify == Init /\ [][NextClassify]_vars


\* ===================================================================
\* Shutdown: main(), the manager's finally block, the Watchers' cancellation
\* ===================================================================
\* The lines written in the runs of SpecShutdown.
ShutdownLines == {l \in Lines : l.kind = "save" /\ Val(l.data).credit_all = 1}

\* The number of lines written to a file in those runs.
MaxShutdownLines == 2

AppendFew(f, line) ==
  /\ Len(log[f]) < MaxShutdownLines
  /\ AppendLine(f, line)

\* The manager's task is done: run() returned, or an error or a cancellation
\* ended it.
Ended == {"done", "failed", "aborted"}

\* The tasks of the Watchers that asyncio still has to run: Task.done() is false.
NotDone == {f \in Files : watcher[f].state \notin {"absent", "done"}}

\* A metrics write in flight ends: _push_influxdb returns (the write succeeded or
\* its error was logged) and the done callback discards the task.
InfluxDone(f) ==
  /\ running = NoneV
  /\ watcher[f].influx_tasks > 0
  /\ watcher' = [watcher EXCEPT ![f].influx_tasks = @ - 1]
  /\ UNCHANGED <<now, running, pc, arg, loc, store_data, store_lock, store_file,
                 pending_tasks, requests, log, mtime, offsets, offsets_dirty,
                 offsets_file, crashes, earlier, mvars, evars>>

\* run(), lines 94-99: asyncio.wait(self.influx_tasks, timeout=5.0) returns, every
\* task done or the timeout over, and the tasks still pending are cancelled.
FinallyWait(f) ==
  /\ running = NoneV
  /\ watcher[f].state = "finally_wait"
  /\ f \notin cancelled
  /\ watcher' = [watcher EXCEPT ![f].state = "done", ![f].influx_tasks = 0]
  /\ UNCHANGED <<now, running, pc, arg, loc, store_data, store_lock, store_file,
                 pending_tasks, requests, log, mtime, offsets, offsets_dirty,
                 offsets_file, crashes, earlier, mvars, evars>>

\* Variant: a cancelled Watcher passes its unsaved record to update() first.
CancelledSaves(w) == has_unsaved_record(w)

\* run(), lines 85-86: except asyncio.CancelledError only logs.
SavesWhenCancelled(w) == FALSE

\* A cancelled Watcher task is resumed with CancelledError at its suspension
\* point: a task that never started ends at once; in the read loop's sleep the
\* except clause and the finally block run; in the finally block's wait the
\* error leaves the block, with the writes still in flight left as they are.
WatcherCancelled(f) ==
  /\ running = NoneV
  /\ f \in cancelled
  /\ watcher[f].state \in {"created", "loop", "finally_wait"}
  /\ cancelled' = cancelled \ {f}
  /\ LET w == watcher[f] IN
     IF w.state = "loop" /\ SavesWhenCancelled(w)
       THEN CallUpdate(f, w, Val(w.last_record), TRUE, "idle")
       ELSE /\ watcher' = [watcher EXCEPT ![f] =
                 IF w.state = "loop" THEN Finally(w, "cancelled")
                 ELSE [w EXCEPT !.state = "done", !.ended = "cancelled"]]
            /\ UNCHANGED <<running, pc, arg, loc>>
  /\ UNCHANGED <<now, store_data, store_lock, store_file, pending_tasks, requests,
                 log, mtime, offsets, offsets_dirty, offsets_file, crashes, earlier,
                 main, manager, shutdown_log, on_disk, evars>>

\* A log file is deleted from the log directory.
DeleteFile(f) ==
  /\ running = NoneV
  /\ main # "exited"
  /\ f \in on_disk
  /\ on_disk' = on_disk \ {f}
  /\ UNCHANGED <<now, running, pc, arg, loc, store_data, store_lock, store_file,
                 pending_tasks, requests, wvars, main, manager, cancelled, shutdown_log, evars>>

\* LogWatcherManager.run, lines 80-85: the finally block cancels every task that
\* is not done and awaits them all.
EnterFinally(cause) ==
  /\ cancelled' = (cancelled \ {"manager"}) \cup NotDone
  /\ shutdown_log' = <<cause, "cancel">>
  /\ manager' = "gather"

\* main(), lines 34-51: the stop signal sets the event, asyncio.wait returns and
\* main cancels the manager's task, then awaits influx.close().
StopSignal ==
  /\ running = NoneV
  /\ main = "wait"
  /\ main' = "influx_close"
  /\ cancelled' = cancelled \cup (IF manager \in Ended THEN {} ELSE {"manager"})
  /\ UNCHANGED <<now, running, pc, arg, loc, store_data, store_lock, store_file,
                 pending_tasks, requests, wvars, manager, shutdown_log, on_disk, evars>>

\* LogWatcherManager.run, lines 76-85: CancelledError arrives in sleep(10).
ManagerCancelled ==
  /\ running = NoneV
  /\ manager = "poll"
  /\ "manager" \in cancelled
  /\ EnterFinally("CancelledError")
  /\ UNCHANGED <<now, running, pc, arg, loc, store_data, store_lock, store_file,
                 pending_tasks, requests, wvars, main, on_disk, evars>>

\* LogWatcherManager.run, lines 51-58: a file the glob returned is gone when
\* stat() is called.  No except clause takes FileNotFoundError: the loop is
\* left, the finally block runs and the error ends the manager's task.
StatError(f) ==
  /\ running = NoneV
  /\ manager = "poll"
  /\ "manager" \notin cancelled
  /\ f \in on_disk
  /\ on_disk' = on_disk \ {f}
  /\ EnterFinally("FileNotFoundError")
  /\ UNCHANGED <<now, running, pc, arg, loc, store_data, store_lock, store_file,
                 pending_tasks, requests, wvars, main, evars>>

\* A CancelledError delivered to the manager inside its finally block, at one
\* of its awaits, leaves the block: the steps not yet made are skipped, and
\* the cancelled gather cancels the Watchers once more.
ManagerAborted ==
  /\ running = NoneV
  /\ manager \in {"gather", "flush", "close"}
  /\ "manager" \in cancelled
  /\ manager' = "aborted"
  /\ cancelled' = (cancelled \ {"manager"}) \cup (IF manager = "gather" THEN NotDone ELSE {})
  /\ UNCHANGED <<now, running, pc, arg, loc, store_data, store_lock, store_file,
                 pending_tasks, requests, wvars, main, shutdown_log, on_disk, evars>>

\* _cleanup_offsets, lines 37-46: the entries of files no longer in the directory
\* are removed.
_cleanup_offsets(offs, existing_files) ==
  [g \in DOMAIN offs \cap existing_files |-> offs[g]]

\* LogWatcherManager.run, lines 85-88: gather returns once every Watcher task is
\* done; _cleanup_offsets runs; flush() cancels the autosave task and awaits it.
ManagerGathered ==
  /\ running = NoneV
  /\ manager = "gather"
  /\ NotDone = {}
  /\ "manager" \notin cancelled
  /\ offsets' = _cleanup_offsets(offsets, on_disk)
  /\ offsets_dirty' = (offsets_dirty \/ offsets' # offsets)
  /\ shutdown_log' = shutdown_log \o <<"gathered", "cleanup">>
  /\ manager' = "flush"
  /\ UNCHANGED <<cancelled, offsets_file>>
  /\ UNCHANGED <<now, running, pc, arg, loc, store_data, store_lock, store_file,
                 pending_tasks, requests, log, mtime, watcher, crashes, earlier,
                 main, on_disk, evars>>

\* FileOffsetStore.flush, lines 77-85, then AutoSaveManager.close, lines 22-24:
\* the offsets are saved, dirty or not; close() awaits the pending save calls.
ManagerFlush ==
  /\ running = NoneV
  /\ manager = "flush"
  /\ "manager" \notin cancelled
  /\ \E o \in OffsetSaveOutcomes :
       IF o = "replaced"
         THEN offsets_file' = offsets /\ offsets_dirty' = FALSE
         ELSE UNCHANGED <<offsets_file, offsets_dirty>>
  /\ shutdown_log' = Append(shutdown_log, "flush")
  /\ manager' = "close"
  /\ UNCHANGED <<cancelled, offsets>>
  /\ UNCHANGED <<now, running, pc, arg, loc, store_data, store_lock, store_file,
                 pending_tasks, requests, log, mtime, watcher, crashes, earlier,
                 main, on_disk, evars>>

\* Variant: the session is closed without waiting for the pending save calls.
NotDrained(pending) == TRUE

\* AutoSaveManager.close, lines 23-24: gather(*self._pending_tasks) has returned.
Drained(pending) == pending = {}

\* AutoSaveManager.close, line 26: self._session.close(); then run() returns, or
\* the error that ended the loop goes on.
ManagerClose ==
  /\ running = NoneV
  /\ manager = "close"
  /\ Drained(pending_tasks)
  /\ "manager" \notin cancelled
  /\ shutdown_log' = Append(shutdown_log, "close")
  /\ manager' = IF shutdown_log[1] = "CancelledError" THEN "done" ELSE "failed"
  /\ UNCHANGED <<cancelled, offsets, offsets_dirty, offsets_file>>
  /\ UNCHANGED <<now, running, pc, arg, loc, store_data, store_lock, store_file,
                 pending_tasks, requests, log, mtime, watcher, crashes, earlier,
                 main, on_disk, evars>>

\* main(), lines 46-51: the manager's task ended by itself; main cancels the
\* stop task and awaits influx.close().
ManagerEnded ==
  /\ running = NoneV
  /\ main = "wait"
  /\ manager \in Ended
  /\ main' = "influx_close"
  /\ UNCHANGED <<now, running, pc, arg, loc, store_data, store_lock, store_file,
                 pending_tasks, requests, wvars, manager, cancelled, shutdown_log,
                 on_disk, evars>>

\* main(), lines 52-57: influx.close() returns and main() ends; asyncio.run then
\* cancels every task that is not done, once more the manager's and the
\* Watchers' among them, and runs the loop until all of them have ended.  The
\* save calls and metrics writes still in flight end cancelled.
MainReturns ==
  /\ running = NoneV
  /\ main = "influx_close"
  /\ main' = "exited"
  /\ cancelled' = cancelled \cup NotDone
                    \cup (IF manager \in Ended THEN {} ELSE {"manager"})
  /\ pending_tasks' = {}
  /\ requests' = [i \in 1..Len(requests) |->
                    IF i \in pending_tasks THEN [requests[i] EXCEPT !.status = "cancelled"]
                    ELSE requests[i]]
  /\ watcher' = [f \in Files |-> [watcher[f] EXCEPT !.influx_tasks = 0]]
  /\ UNCHANGED <<now, running, pc, arg, loc, store_data, store_lock, store_file,
                 log, mtime, offsets, offsets_dirty, offsets_file, crashes, earlier,
                 manager, shutdown_log, on_disk, evars>>

WatchAll(f) ==
  \/ ManagerPoll(f) \/ WatcherStart(f) \/ ReadLine(f)
  \/ Process(f, WriteOutcomes) \/ AfterUpdate(f)
  \/ GetLock(f) \/ GetRead(f) \/ Check(f) \/ PutLock(f) \/ PutWrite(f, {"written"})
  \/ Dispatch(f)
  \/ InfluxDone(f) \/ FinallyWait(f) \/ WatcherCancelled(f)

NextShutdown ==
  \/ Tick(WatchTickStep, MaxWatchTicks)
  \/ \E f \in Files, line \in ShutdownLines : AppendFew(f, line)
  \/ \E f \in Files : WatchAll(f)
  \/ \E i \in pending_tasks, r \in Responses : DoRequest(i, r)
  \/ \E g \in Files \cup OldFiles : DeleteFile(g) \/ StatError(g)
  \/ StopSignal \/ ManagerCancelled \/ ManagerGathered \/ ManagerFlush \/ ManagerClose
  \/ ManagerAborted \/ ManagerEnded \/ MainReturns

\* The whole program, from start to the end of the process.
SpecShutdown == Init /\ [][NextShutdown]_vars

\* ===================================================================
\* MedalRateEMA: the rate estimator
\* ===================================================================
EmaFrame ==
  UNCHANGED <<now, running, pc, arg, loc, store_data, store_lock, store_file,
              pending_tasks, requests, wvars, mvars>>

EmaUpdate(total, timestamp) ==
  /\ calls < MaxCalls
  /\ calls' = calls + 1
  /\ LET r == update(medal_rate, total, timestamp)
     IN /\ medal_rate' = r.est
        /\ history' = Append(history, [total |-> total, timestamp |-> timestamp,
                                     result |-> r.result])
        /\ fresh' = IF IsNone(fresh) THEN fresh
                     ELSE Some(update(Val(fresh), total, timestamp).est)
        /\ fresh_history' =
             IF IsNone(fresh) THEN fresh_history
             ELSE Append(fresh_history,
                         [total |-> total, timestamp |-> timestamp,
                          result |-> update(Val(fresh), total, timestamp).result])
  /\ UNCHANGED offsets_added
  /\ EmaFrame

EmaAddOffset(value) ==
  /\ calls < MaxCalls
  /\ calls' = calls + 1
  /\ medal_rate' = add_offset(medal_rate, value)
  /\ fresh' = IF IsNone(fresh) THEN fresh ELSE Some(add_offset(Val(fresh), value))
  /\ offsets_added' = offsets_added + value
  /\ UNCHANGED <<history, fresh_history>>
  /\ EmaFrame

\* reset() is called, and for comparison a second estimator is constructed; it
\* is given every later call as well.
EmaReset ==
  /\ calls < MaxCalls
  /\ calls' = calls + 1
  /\ medal_rate' = reset(medal_rate)
  /\ history' = <<>>
  /\ fresh' = Some(MedalRateEMA)
  /\ fresh_history' = <<>>
  /\ offsets_added' = 0
  /\ EmaFrame

NextEMA ==
  \/ \E total \in Totals, timestamp \in 0..MaxTime : EmaUpdate(total, timestamp)
  \/ \E value \in OffsetValues : EmaAddOffset(value)
  \/ EmaReset

\* One estimator, called in any order with any arguments.
SpecEMA == Init /\ [][NextEMA]_vars

\* ===================================================================
\* Properties of AutoSaveManager.update (specification Spec)
\* ===================================================================
InUpdate(t) == pc[t] \in {"get_lock", "get_read", "check", "put_lock", "put_write",
                          "dispatch", "return"}
\* t has entered update() and has not yet persisted a state of its own.
BeforePersist(t) == pc[t] \in {"get_lock", "get_read", "check", "put_lock", "put_write"}
UserOf(t) == Val(arg[t].record).user_id
DataOf(t) == Val(arg[t].record).data
Stored(u) == u \in DOMAIN store_data

\* C1: rollback guard.  While an update() call is in progress for a user whose
\* stored credit_all is strictly greater than the record's credit_all, no step
\* changes the save-state store (credit_all, last_attempt_at, data_hash) or the
\* state file, and no remote call is created; and such a call returns with the
\* rollback outcome when ignore_rate_limit is true, and with the rollback or
\* the rate-limit outcome when it is false.
C1_RollbackGuard ==
  [][\A t \in Tasks :
       (InUpdate(t) /\ Stored(UserOf(t))
          /\ store_data[UserOf(t)].credit_all > DataOf(t).credit_all)
       => /\ store_data' = store_data
          /\ store_file' = store_file
          /\ requests' = requests
          /\ pending_tasks' = pending_tasks
          /\ pc'[t] = "return"
               => loc'[t].outcome \in
                    (IF arg[t].ignore_rate_limit THEN {"rollback"}
                     ELSE {"rollback", "rate_limited"})]_vars

\* C1 witness: a forced update (ignore_rate_limit = true) has been skipped by
\* the rollback guard.
C1_Witness ==
  \E t \in Tasks :
     /\ pc[t] = "return" /\ loc[t].outcome = "rollback" /\ arg[t].ignore_rate_limit
     /\ store_data[UserOf(t)].credit_all > DataOf(t).credit_all

\* C2: for every user the stored credit_all never decreases, whichever tasks
\* call update() and however their calls are scheduled.
C2_CreditAllNonDecreasing ==
  [][\A u \in DOMAIN store_data :
       /\ u \in DOMAIN store_data'
       /\ store_data'[u].credit_all >= store_data[u].credit_all]_vars

\* C2 witness: a task has just replaced a stored state by one with a larger
\* credit_all, after another task's update had stored the earlier one.
C2_Witness ==
  \E t \in Tasks :
     /\ pc[t] = "dispatch"
     /\ ~IsNone(loc[t].state)
     /\ Val(loc[t].state).credit_all < store_data[UserOf(t)].credit_all

\* C3: rate limit.  While a non-forced update() that has not persisted yet is
\* in progress for a user whose
\* stored last_attempt_at is less than AUTOSAVE_INTERVAL before the call's
\* `now`, no step changes the store or creates a remote call, and the call
\* returns rate limited; and when a non-forced update creates a remote call for
\* a user that had a state, the call's `now` is at least AUTOSAVE_INTERVAL after
\* that state's last_attempt_at.
C3_RateLimit ==
  [][/\ \A t \in Tasks :
          (BeforePersist(t) /\ Stored(UserOf(t)) /\ ~arg[t].ignore_rate_limit
             /\ loc[t].now - store_data[UserOf(t)].last_attempt_at < AUTOSAVE_INTERVAL)
          => /\ store_data' = store_data
             /\ requests' = requests
             /\ pc'[t] = "return" => loc'[t].outcome = "rate_limited"
     /\ \A t \in Tasks :
          (pc[t] = "put_write" /\ pc'[t] = "dispatch"
             /\ ~arg[t].ignore_rate_limit /\ Stored(UserOf(t)))
          => loc[t].now - store_data[UserOf(t)].last_attempt_at >= AUTOSAVE_INTERVAL]_vars

\* C3 witness: a non-forced update made after an earlier attempt for the user,
\* less than AUTOSAVE_INTERVAL later, has returned rate limited.
C3_Witness ==
  \E t \in Tasks :
     /\ pc[t] = "return" /\ loc[t].outcome = "rate_limited"
     /\ loc[t].now > store_data[UserOf(t)].last_attempt_at

\* C4: duplicate suppression.  While an update() that has not persisted yet
\* is in progress whose payload
\* hashes to the data_hash stored for its user, no step changes the store
\* (last_attempt_at included) or creates a remote call, whatever the rate limit
\* and ignore_rate_limit; and a stored state is never replaced by one with the
\* same data_hash, so two consecutive identical payloads give one call.
C4_DuplicateSuppression ==
  [][/\ \A t \in Tasks :
          (BeforePersist(t) /\ Stored(UserOf(t))
             /\ calc_data_hash(DataOf(t)) = store_data[UserOf(t)].data_hash)
          => /\ store_data' = store_data
             /\ requests' = requests
             /\ pc'[t] # "put_lock"
     /\ \A u \in DOMAIN store_data :
          store_data'[u] # store_data[u] => store_data'[u].data_hash # store_data[u].data_hash]_vars

\* C4 witness: the second of two identical payloads of one user, sent with
\* the rate limit elapsed, has been skipped as unchanged; one call was created.
C4_Witness ==
  \E t \in Tasks :
     /\ pc[t] = "return" /\ loc[t].outcome = "same_data"
     /\ ~arg[t].ignore_rate_limit
     /\ loc[t].now - store_data[UserOf(t)].last_attempt_at >= AUTOSAVE_INTERVAL
     /\ Cardinality({i \in 1..Len(requests) : requests[i].user_id = UserOf(t)}) = 1

\* C5 as stated: the policy (look-up, checks, persist) is evaluated inside the
\* store's mutual exclusion, that is, a task that is between its look-up and
\* its persist holds the store's lock.
C5_PolicyUnderStoreLock ==
  \A t \in Tasks : pc[t] \in {"check", "put_lock"} => store_lock = Some(t)

\* C5 amended: the store's lock is held only inside get() and inside update();
\* the policy is still evaluated as one uninterrupted step of the event loop:
\* at most one task is inside update() at a time, and a task persists only
\* over the very state its look-up returned, so of two concurrent non-forced
\* updates of one user at most one persists and creates a call.
C5_PolicyUninterrupted ==
  [][/\ Cardinality({t \in Tasks : InUpdate(t)}) <= 1
     /\ \A t \in Tasks :
          (pc[t] = "put_write" /\ pc'[t] = "dispatch")
          => loc[t].state = StoreGet(store_data, UserOf(t))
     /\ \A t \in Tasks :
          (pc[t] = "put_write" /\ pc'[t] = "dispatch"
             /\ ~arg[t].ignore_rate_limit /\ Stored(UserOf(t)))
          => loc[t].now - store_data[UserOf(t)].last_attempt_at >= AUTOSAVE_INTERVAL]_vars

\* C5 witness: two update() calls for one user made at the same instant, both
\* without ignore_rate_limit: the first created a call (still pending), the
\* second has been skipped.
C5_Witness ==
  \E t \in Tasks :
     /\ pc[t] = "return" /\ loc[t].outcome = "rate_limited"
     /\ loc[t].now = store_data[UserOf(t)].last_attempt_at
     /\ \E i \in pending_tasks : requests[i].user_id = UserOf(t)

\* C6: the attempt is recorded before the network result is known.  When the
\* request task is created the store already holds {credit_all, now, data_hash}
\* of the call; the end of a request (any response) leaves the store unchanged;
\* and a non-forced update made less than AUTOSAVE_INTERVAL after the stored
\* attempt returns rate limited, whether the request failed or is in flight.
C6_AttemptRecordedFirst ==
  [][/\ \A t \in Tasks :
          (pc[t] = "dispatch" /\ pc'[t] = "return")
          => /\ Stored(UserOf(t))
             /\ store_data[UserOf(t)] =
                  CloudSaveState(DataOf(t).credit_all, loc[t].now,
                                 calc_data_hash(DataOf(t)))
     /\ Len(requests') > Len(requests) =>
          \E t \in Tasks : pc[t] = "dispatch" /\ pc'[t] = "return"
     /\ (requests' # requests /\ Len(requests') = Len(requests))
          => store_data' = store_data
     /\ \A t \in Tasks :
          (pc'[t] = "return" /\ ~arg'[t].ignore_rate_limit
             /\ \E i \in 1..Len(requests') :
                  /\ requests'[i].user_id = UserOf(t)'
                  /\ requests'[i].status \in {"pending", "failed"}
             /\ loc'[t].outcome # "dispatched"
             /\ loc'[t].now - store_data'[UserOf(t)'].last_attempt_at < AUTOSAVE_INTERVAL)
          => loc'[t].outcome = "rate_limited"]_vars

\* C6 witness: the only request of a user has failed, and a later non-forced
\* update for that user, within AUTOSAVE_INTERVAL, has returned rate limited.
C6_Witness ==
  \E t \in Tasks :
     /\ pc[t] = "return" /\ loc[t].outcome = "rate_limited"
     /\ loc[t].now > store_data[UserOf(t)].last_attempt_at
     /\ \A i \in 1..Len(requests) :
          requests[i].user_id = UserOf(t) => requests[i].status = "failed"
     /\ \E i \in 1..Len(requests) : requests[i].user_id = UserOf(t)


\* ===================================================================
\* Properties of the Watcher (specifications SpecWatch and SpecCrash)
\* ===================================================================
\* The lines a Watcher has taken from the file so far, the one in hand included.
Taken(f) ==
  IF watcher[f].state = "process"
    THEN Append(watcher[f].delivered, watcher[f].line)
    ELSE watcher[f].delivered

\* The Watcher of f has opened the file.
Opened(f) == watcher[f].state \in {"loop", "process", "update"}

\* Among the lines delivered, a world leave with no save-data line after it.
LeavePending(content, delivered) ==
  \E j \in 1..Len(delivered) :
    /\ content[delivered[j]].kind = "leave"
    /\ \A k \in (j + 1)..Len(delivered) : content[delivered[k]].kind # "save"

\* C7: a world-leave line makes no call of update() and leaves the Watcher
\* waiting; a save-data line is passed to update() with ignore_rate_limit = TRUE
\* exactly when a world leave was delivered by this Watcher since its last
\* save-data line, and after it the Watcher waits no more: one forced call per
\* run of leaves, every other save-data line on the rate-limited path.
C7_LeaveForcesNextSave ==
  [][\A f \in Files :
       (/\ watcher[f].state = "process"
        /\ Len(watcher'[f].delivered) = Len(watcher[f].delivered) + 1)
       => LET line == log[f][watcher[f].line] IN
          /\ line.kind = "leave"
               => /\ pc'[f] = "idle"
                  /\ requests' = requests
                  /\ watcher'[f].wait_leave_resume_url
          /\ line.kind = "save"
               => /\ pc'[f] = "get_lock"
                  /\ arg'[f].record =
                       Some([data |-> Val(line.data), user_id |-> WatchUser])
                  /\ arg'[f].ignore_rate_limit
                       = LeavePending(log[f], watcher[f].delivered)
                  /\ ~watcher'[f].wait_leave_resume_url]_vars

\* Two world leaves in a row, then a save-data line passed with the rate limit
\* ignored.
C7_Witness ==
  \E f \in Files :
    /\ watcher[f].state = "update"
    /\ watcher[f].site = "leave"
    /\ pc[f] = "get_lock"
    /\ arg[f].ignore_rate_limit
    /\ Len(watcher[f].delivered) = 3
    /\ log[f][watcher[f].delivered[1]].kind = "leave"
    /\ log[f][watcher[f].delivered[2]].kind = "leave"
    /\ log[f][watcher[f].delivered[3]].kind = "save"

\* The non-empty lines of the file that start at or after byte lo and end at or
\* before byte hi, in file order.
NonEmptyBetween(content, lo, hi) ==
  LET Within(i) == /\ content[i].kind # "blank"
                   /\ StartByte(content, i) >= lo
                   /\ EndByte(content, i) <= hi
  IN SelectSeq([i \in 1..Len(content) |-> i], Within)

\* C8: a Watcher started with checkpoint entry N reads from byte N on: the
\* lines it has taken are exactly the non-empty lines between byte N and its
\* file position, in order; so no line before byte N is delivered again and the
\* first line delivered is the first non-empty line from byte N on (empty lines
\* are read and skipped, never delivered).
C8_ResumeAtOffset ==
  \A f \in Files :
    (Opened(f) /\ ~IsNone(watcher[f].offset))
      => /\ watcher[f].file >= Val(watcher[f].offset)
         /\ Taken(f) = NonEmptyBetween(log[f], Val(watcher[f].offset), watcher[f].file)
         /\ \A j \in 1..Len(Taken(f)) :
              StartByte(log[f], Taken(f)[j]) >= Val(watcher[f].offset)

\* A Watcher resumed at byte N > 0 has delivered the line that starts at N.
C8_Witness ==
  \E f \in Files :
    /\ Opened(f)
    /\ ~IsNone(watcher[f].offset)
    /\ Val(watcher[f].offset) > 0
    /\ Len(watcher[f].delivered) >= 1
    /\ StartByte(log[f], watcher[f].delivered[1]) = Val(watcher[f].offset)
    /\ \E i \in 1..Len(log[f]) :
         log[f][i].kind # "blank" /\ EndByte(log[f], i) <= Val(watcher[f].offset)

\* The records of the save-data lines among the lines given.
RecordsOf(content, idx) ==
  {Some([data |-> Val(content[idx[j]].data), user_id |-> WatchUser]) :
     j \in {k \in 1..Len(idx) : content[idx[k]].kind = "save"}}

\* C9: a Watcher started with no checkpoint entry starts at end-of-file: every
\* line it takes was appended after it opened the file, and every record it
\* keeps or passes to update() comes from such a line.
C9_NoBackfill ==
  \A f \in Files :
    (Opened(f) /\ IsNone(watcher[f].offset))
      => /\ \A j \in 1..Len(Taken(f)) : Taken(f)[j] > watcher[f].opened_len
         /\ watcher[f].file >= EndByte(log[f], watcher[f].opened_len)
         /\ ~IsNone(watcher[f].last_record)
              => watcher[f].last_record \in RecordsOf(log[f], watcher[f].delivered)
         /\ pc[f] # "idle"
              => arg[f].record \in RecordsOf(log[f], watcher[f].delivered)

\* A Watcher without checkpoint entry opened a file that had a save-data line
\* in it, and passes the record of a later line, with other data, to update().
C9_Witness ==
  \E f \in Files :
    /\ Opened(f)
    /\ IsNone(watcher[f].offset)
    /\ watcher[f].opened_len >= 1
    /\ pc[f] = "get_lock"
    /\ \E i \in 1..watcher[f].opened_len :
         /\ log[f][i].kind = "save"
         /\ Val(arg[f].record).data # Val(log[f][i].data)
    /\ Len(watcher[f].delivered) >= 1

\* The lines the Watcher of f has delivered that an earlier Watcher of f had
\* delivered already.
Reprocessed(f) ==
  {i \in earlier[f] : \E j \in 1..Len(watcher[f].delivered) : watcher[f].delivered[j] = i}

\* C10 as stated: whenever the process crashes, the Watcher that resumes from
\* the durable checkpoint processes at most one line a second time.
C10_AtMostOneReprocessed ==
  \A f \in Files : Cardinality(Reprocessed(f)) <= 1

\* C10: when a non-empty line is read, its end offset is in the offset store's
\* memory before the line is classified; the durable file is written only by
\* the periodic save, with the memory's content, and never holds an offset
\* beyond the memory's.
C10_OffsetSetBeforeClassify ==
  \A f \in Files :
    /\ watcher[f].state = "process"
         => /\ f \in DOMAIN offsets
            /\ offsets[f] = EndByte(log[f], watcher[f].line)
            /\ offsets[f] = watcher[f].file
    /\ f \in DOMAIN offsets_file
         => /\ f \in DOMAIN offsets
            /\ offsets_file[f] <= offsets[f]
    /\ (~offsets_dirty /\ f \in DOMAIN offsets)
         => /\ f \in DOMAIN offsets_file
            /\ offsets_file[f] = offsets[f]

\* After a crash the Watcher resumed from the durable checkpoint has delivered
\* one line a second time and holds another such line, positioned and not yet
\* classified.
C10_Witness ==
  \E f \in Files :
    /\ crashes >= 1
    /\ watcher[f].state = "process"
    /\ watcher[f].line \in earlier[f]
    /\ Reprocessed(f) # {}
    /\ offsets[f] = EndByte(log[f], watcher[f].line)
    /\ f \in DOMAIN offsets_file
    /\ offsets_file[f] < offsets[f]

\* A step of _process_line: the line in hand is delivered to the classifier.
Delivers(f) ==
  /\ watcher[f].state = "process"
  /\ Len(watcher'[f].delivered) = Len(watcher[f].delivered) + 1

\* The record of the last save-data line among the lines given, if any.
LastRecordOf(content, delivered) ==
  LET saves == {j \in 1..Len(delivered) : content[delivered[j]].kind = "save"}
  IN IF saves = {} THEN NoneV
     ELSE LET j == CHOOSE k \in saves : \A m \in saves : m <= k
          IN Some([data |-> Val(content[delivered[j]].data), user_id |-> WatchUser])

\* Among the lines delivered, a save-data line that no world leave preceded
\* since the save-data line before it: one taken on the rate-limited path.
NormalSaveDelivered(content, delivered) ==
  \E j \in 1..Len(delivered) :
    /\ content[delivered[j]].kind = "save"
    /\ ~LeavePending(content, SubSeq(delivered, 1, j - 1))

\* C11 as stated: at a quit line, whenever the Watcher has a last record,
\* update() is called for it with ignore_rate_limit = TRUE.
C11_QuitSavesLastRecord ==
  [][\A f \in Files :
       (/\ Delivers(f)
        /\ log[f][watcher[f].line].kind = "quit"
        /\ ~IsNone(LastRecordOf(log[f], watcher[f].delivered)))
       => /\ pc'[f] = "get_lock"
          /\ arg'[f].ignore_rate_limit
          /\ arg'[f].record = LastRecordOf(log[f], watcher[f].delivered)]_vars

\* C11: at a quit line update() is called, with ignore_rate_limit = TRUE and the
\* record of the last save-data line, exactly when this Watcher has taken a
\* save-data line on the rate-limited path (which marks the record dirty,
\* whatever update() decided); a Watcher whose save-data lines all followed a
\* world leave, or that has no record, makes no call at the quit.
C11_QuitSavesDirtyRecord ==
  [][\A f \in Files :
       (Delivers(f) /\ log[f][watcher[f].line].kind = "quit")
       => IF NormalSaveDelivered(log[f], watcher[f].delivered)
            THEN /\ pc'[f] = "get_lock"
                 /\ arg'[f].ignore_rate_limit
                 /\ arg'[f].record = LastRecordOf(log[f], watcher[f].delivered)
            ELSE /\ pc'[f] = "idle"
                 /\ requests' = requests]_vars

\* A quit line after a save-data line taken on the rate-limited path: update()
\* is being called with the rate limit ignored.
C11_Witness ==
  \E f \in Files :
    /\ watcher[f].state = "update"
    /\ watcher[f].site = "quit"
    /\ pc[f] = "get_lock"
    /\ arg[f].ignore_rate_limit
    /\ arg[f].record = watcher[f].last_record
    /\ log[f][watcher[f].delivered[Len(watcher[f].delivered)]].kind = "quit"

\* C12 as stated: once a quit line has been handled the Watcher processes no
\* further line of the file.
C12_NoLineAfterQuit ==
  \A f \in Files :
    \A j \in 1..Len(watcher[f].delivered) :
      log[f][watcher[f].delivered[j]].kind = "quit" => j = Len(watcher[f].delivered)

\* A quit line is among the lines delivered.
QuitDelivered(f) ==
  \E j \in 1..Len(watcher[f].delivered) : log[f][watcher[f].delivered[j]].kind = "quit"

\* C12: a quit line does not stop the Watcher: after handling it (and after the
\* forced save it may make) the Watcher is back in its read loop, and a Watcher
\* that has handled a quit line ends only by the idle timeout, more than an hour
\* after its last line, or by an I/O error.
C12_QuitKeepsTailing ==
  [][\A f \in Files :
       /\ (Delivers(f) /\ log[f][watcher[f].line].kind = "quit")
            => /\ watcher'[f].state \in {"loop", "update"}
               /\ watcher'[f].ended = "none"
       /\ (watcher[f].state = "update" /\ watcher[f].site = "quit"
             /\ watcher'[f].state # "update")
            => watcher'[f].state = "loop"
       /\ (QuitDelivered(f) /\ Opened(f) /\ watcher'[f].state = "done")
            => \/ watcher'[f].ended = "error"
               \/ /\ watcher'[f].ended = "idle"
                  /\ now - watcher[f].last_activity > ONE_HOUR]_vars

\* A line delivered after a quit line by the same Watcher.
C12_Witness ==
  \E f \in Files :
    \E j \in 1..Len(watcher[f].delivered) :
      /\ log[f][watcher[f].delivered[j]].kind = "quit"
      /\ j < Len(watcher[f].delivered)

\* The Watcher of f has stopped because no line arrived for an hour.
StoppedIdle(f) == watcher[f].state = "done" /\ watcher[f].ended = "idle"

\* C13 as stated: when a Watcher has stopped for inactivity, the offset store
\* holds no entry for its file.
C13_IdleStopRemovesOffset ==
  \A f \in Files : StoppedIdle(f) => f \notin DOMAIN offsets

\* C13: a Watcher that stops for inactivity leaves the file's entry in the
\* offset store: the entry is the end of the last non-empty line it read, or,
\* if it read none, what it found when it started.
C13_IdleStopKeepsOffset ==
  \A f \in Files :
    StoppedIdle(f)
      => LET d == watcher[f].delivered IN
         StoreGet(offsets, f) =
           IF Len(d) >= 1 THEN Some(EndByte(log[f], d[Len(d)])) ELSE watcher[f].offset

\* A Watcher that read a line has stopped for inactivity and its file's entry is
\* still in the store.
C13_Witness ==
  \E f \in Files :
    /\ StoppedIdle(f)
    /\ Len(watcher[f].delivered) >= 1
    /\ f \in DOMAIN offsets
    /\ offsets[f] > 0

\* ===================================================================
\* Properties of the shutdown (specification SpecShutdown)
\* ===================================================================

\* The Watcher's run() is over, or only its finally block's wait is left.
Finished == {"finally_wait", "done"}

\* C14 as stated: a Watcher that holds an unsaved last record never leaves its
\* read loop for the end of run() without a call of update, and no Watcher's
\* run() ends with a metrics write still pending.
C14_FinishSavesUnsaved ==
  [][\A f \in Files :
       LET w == watcher[f]
           w2 == watcher'[f]
       IN
       /\ (w.state = "loop" /\ w2.state \in Finished) => ~has_unsaved_record(w)
       /\ (w.state # "done" /\ w2.state = "done") => w2.influx_tasks = 0]_vars

\* C14: a Watcher that holds an unsaved last record calls update for it with
\* ignore_rate_limit = TRUE before it finishes only when it stops for
\* inactivity; a Watcher ended by cancellation or by a read error finishes
\* without a call of update.  The finally block waits for the metrics writes in
\* flight and cancels those its wait leaves pending, unless the Watcher is
\* cancelled during that wait: then its run() ends with them still pending.
C14_OnlyIdleStopSaves ==
  [][\A f \in Files :
       LET w == watcher[f]
           w2 == watcher'[f]
       IN
       /\ (w.state = "loop" /\ w2.state = "update" /\ w2.site = "idle")
            => /\ f \notin cancelled
               /\ now - w.last_activity > ONE_HOUR
               /\ has_unsaved_record(w)
               /\ arg'[f] = [record |-> w.last_record, ignore_rate_limit |-> TRUE]
       /\ (w.state = "loop" /\ w2.state \in Finished)
            => /\ w2.ended = "idle" => ~has_unsaved_record(w)
               /\ w2.ended \in {"idle", "error", "cancelled"}
               /\ arg'[f] = arg[f] /\ pc'[f] = pc[f] /\ requests' = requests
       /\ (w.state = "update" /\ w.site = "idle" /\ w2.state \in Finished)
            => w2.ended = "idle"
       /\ (w.state # "done" /\ w2.state = "done")
            => \/ w2.influx_tasks = 0
               \/ w.state = "finally_wait" /\ f \in cancelled]_vars

\* A Watcher that holds an unsaved last record was cancelled and has finished.
C14_Witness ==
  \E f \in Files :
    /\ watcher[f].state = "done"
    /\ watcher[f].ended = "cancelled"
    /\ has_unsaved_record(watcher[f])

\* The steps of the manager's finally block, in the order of the code.
ShutdownSteps == <<"cancel", "gathered", "cleanup", "flush", "close">>

\* s is an initial part of t.
IsPrefix(s, t) == Len(s) <= Len(t) /\ \A i \in 1..Len(s) : s[i] = t[i]

\* The steps of the finally block made so far.
StepsMade == IF shutdown_log = <<>> THEN <<>> ELSE Tail(shutdown_log)

\* The manager was cancelled in its discovery loop: the stop signal was received.
StoppedBySignal == shutdown_log # <<>> /\ shutdown_log[1] = "CancelledError"

\* main() has returned and every task has ended: the process exits.
ProcessExited == main = "exited" /\ manager \in Ended /\ NotDone = {}

\* C15, the order alone: the finally block makes its steps in the order of the
\* code, and touches the stores only when every Watcher task is done.
C15_ShutdownOrder ==
  /\ IsPrefix(StepsMade, ShutdownSteps)
  /\ Len(StepsMade) >= 3 => NotDone = {}

\* The manager's finally block ran to its end after a stop signal.
C15_Witness ==
  /\ StoppedBySignal
  /\ StepsMade = ShutdownSteps
  /\ ProcessExited
  /\ \E f \in Files : watcher[f].ended = "cancelled"

\* C15: on shutdown the manager cancels every Watcher task not done, touches
\* the stores only after all Watcher tasks are done, then removes the stale
\* offset entries, flushes the offset store and closes the Autosave Manager, in
\* that order; and when the process exits after a stop signal, the whole
\* sequence has been made.
C15_ShutdownRunsToCompletion ==
  /\ C15_ShutdownOrder
  /\ (ProcessExited /\ StoppedBySignal) => StepsMade = ShutdownSteps

\* The number of times self._session.close() has been called.
SessionCloses == Cardinality({i \in 1..Len(shutdown_log) : shutdown_log[i] = "close"})

\* A call of update is under way, or a save call it dispatched has not finished.
SaveCallRunning ==
  \/ pending_tasks # {}
  \/ \E i \in 1..Len(requests) : requests[i].status = "pending"
  \/ \E f \in Files : pc[f] # "idle"

WatcherErrorOn(g) ==
  g \in Files /\ watcher[g].ended # "error" /\ watcher'[g].ended = "error"

\* This step is the manager's stat() of g failing: g was found by the glob and
\* is gone at the inspection.
StatErrorOn(g) ==
  /\ shutdown_log = <<>>
  /\ shutdown_log' # <<>> /\ shutdown_log'[1] = "FileNotFoundError"
  /\ g \in on_disk \ on_disk'

\* Nothing but the Watcher of g is touched by this step.
Contained(g) ==
  /\ manager' = manager
  /\ \A f \in Files \ {g} : watcher'[f] = watcher[f] /\ (f \in cancelled' <=> f \in cancelled)

\* C17, the Watcher's errors alone: an error raised by open() or readline() in
\* the Watcher of one file ends that Watcher; the manager stays in its
\* discovery loop and starts a new Watcher for the file at a later poll.
C17_WatcherErrorIsContained ==
  [][\A g \in Files : WatcherErrorOn(g) => Contained(g) /\ cancelled' = cancelled]_vars

\* A Watcher was ended by an I/O error and the manager is in its discovery loop.
C17_Witness ==
  \E g \in Files :
    /\ watcher[g].state = "done" /\ watcher[g].ended = "error"
    /\ manager = "poll"

\* C17: an I/O error on one file, in its Watcher or at the manager's inspection
\* of the file it has just discovered, ends at most that file's Watcher: the
\* manager stays in its discovery loop and the Watchers of the other files
\* are neither changed nor cancelled.
C17_IoErrorIsContained ==
  [][\A g \in Files \cup OldFiles :
       (WatcherErrorOn(g) \/ StatErrorOn(g)) => Contained(g)]_vars

\* ===================================================================
\* Properties of MedalRateEMA (specification SpecEMA)
\* ===================================================================

\* This step is a call of update.
UpdateCalled == Len(history') = Len(history) + 1

\* This step is a call of update with a timestamp not later than the stored one.
NonIncreasingUpdate ==
  /\ UpdateCalled
  /\ ~IsNone(medal_rate.last_timestamp)
  /\ history'[Len(history')].timestamp <= Val(medal_rate.last_timestamp)

\* C18 as stated: an update with dt <= 0 leaves the four fields unchanged and
\* returns what the previous update returned.
C18_NonIncreasingReturnsPrevious ==
  [][NonIncreasingUpdate
       => /\ medal_rate' = medal_rate
          /\ history'[Len(history')].result = history[Len(history)].result]_vars

\* C18: an update with dt <= 0 leaves last_timestamp, last_total, ema_rate and
\* offset_total unchanged and returns int(ema_rate): what the previous update
\* returned if that returned a rate, and 0 if the previous update was the first
\* one and returned None.
C18_NonIncreasingReturnsCurrent ==
  [][NonIncreasingUpdate
       => LET prev == history[Len(history)].result
              result == history'[Len(history')].result
          IN /\ medal_rate' = medal_rate
             /\ result = Some(int(medal_rate.ema_rate))
             /\ result = IF IsNone(prev) THEN Some(0) ELSE prev]_vars

\* The last update had an earlier timestamp than the stored one and returned the
\* rate, not 0, that the update before it had returned.
C18_Witness ==
  LET n == Len(history) IN
  /\ n >= 3
  /\ history[n].timestamp < Val(medal_rate.last_timestamp)
  /\ history[n].result = history[n - 1].result
  /\ history[n].result \notin {NoneV, Some(0)}

\* C19: from a reset() on, the estimator and one constructed at that moment,
\* given the same update and add_offset calls, have the same four fields and
\* have returned the same results.
C19_ResetIsFresh ==
  ~IsNone(fresh) => medal_rate = Val(fresh) /\ history = fresh_history

\* After at least two earlier calls the estimator was reset; since then an
\* offset was added and two updates have given a rate that is not 0.
C19_Witness ==
  /\ ~IsNone(fresh)
  /\ Len(history) >= 2
  /\ calls >= Len(history) + 4
  /\ history[Len(history)].result \notin {NoneV, Some(0)}
  /\ medal_rate.offset_total > 0

\* C20 as stated: an update returns a rate only when, since construction or the
\* last reset, two updates with strictly increasing timestamps have been made.
C20_RateOnlyAfterIncrease ==
  \A n \in 1..Len(history) :
    ~IsNone(history[n].result)
      => \E i, j \in 1..n : i < j /\ history[i].timestamp < history[j].timestamp

\* C20: update returns None on the first update since construction or the last
\* reset and on no other; every later update returns an integer, which is 0 as
\* long as no update has had a timestamp later than the first one's.
C20_NoneOnlyOnFirstUpdate ==
  \A n \in 1..Len(history) :
    /\ IsNone(history[n].result) <=> n = 1
    /\ (n > 1 /\ \A j \in 2..n : history[j].timestamp <= history[1].timestamp)
         => history[n].result = Some(0)

\* The second update repeated the first one's timestamp and returned 0; the
\* third was later and returned a rate.
C20_Witness ==
  /\ Len(history) >= 3
  /\ history[2].timestamp = history[1].timestamp
  /\ history[2].result = Some(0)
  /\ history[3].result \notin {NoneV, Some(0)}

\* Since construction or the last reset no offset was added, and the updates
\* had strictly increasing timestamps and non-decreasing totals.
Monotone ==
  /\ medal_rate.offset_total = 0
  /\ \A i \in 1..(Len(history) - 1) :
       /\ history[i].timestamp < history[i + 1].timestamp
       /\ history[i].total <= history[i + 1].total

\* C21: in a sequence of updates with strictly increasing timestamps and
\* non-decreasing totals, every update from the second on returns a rate, and
\* the rate is not negative.
C21_MonotoneRateNonNegative ==
  Monotone
    => \A n \in 2..Len(history) :
         ~IsNone(history[n].result) /\ Val(history[n].result) >= 0

\* Three updates with increasing timestamps, the total growing, gave a
\* positive rate twice.
C21_Witness ==
  /\ Monotone
  /\ Len(history) = 3
  /\ history[1].total < history[2].total
  /\ Val(history[2].result) > 0
  /\ Val(history[3].result) > 0

\* This step is a call of add_offset.
AddOffsetCalled == offsets_added' > offsets_added

\* C22: the cumulative offset is the sum of the amounts passed to add_offset
\* since construction or the last reset; add_offset changes that field alone;
\* and an update that stores a total stores the given total minus that sum.
C22_AdjustedTotal ==
  [][/\ medal_rate'.offset_total = offsets_added'
     /\ AddOffsetCalled
          => medal_rate' = [medal_rate EXCEPT !.offset_total = offsets_added']
     /\ (UpdateCalled /\ ~NonIncreasingUpdate)
          => medal_rate'.last_total =
               Some(history'[Len(history')].total - offsets_added)]_vars

\* Two offsets were added and then a first update was made: the total stored
\* is the given one minus both.
C22_Witness ==
  /\ Len(history) = 1
  /\ \E v \in OffsetValues : offsets_added = 2 * v
  /\ medal_rate.last_total = Some(history[1].total - offsets_added)
  /\ medal_rate.last_total # Some(history[1].total)

\* ===================================================================
\* C23  For a save-data line whose data parameter is not valid JSON or fails the
\*      schema, or whose data, user_id or sig parameter is missing or blank,
\*      classification returns no event: the Watcher's step over the line leaves
\*      the last record, the estimator, the metrics points, the pending
\*      world-leave flag and the calls of the Autosave Manager as they were, and
\*      the Watcher goes on, in the same step of the loop, to the next line.
\* ===================================================================
ProcessedMalformed(f) ==
  /\ watcher[f].state = "process"
  /\ watcher'[f] # watcher[f]
  /\ log[f][watcher[f].line].kind \in Malformed

StampsBefore(f, i) ==
  {k \in 1..Len(watcher[f].delivered) :
     /\ watcher[f].delivered[k] < i
     /\ log[f][watcher[f].delivered[k]].kind = "timestamp"}

CurrentTimestamp(f, i) ==
  IF StampsBefore(f, i) = {} THEN now
  ELSE LET k == CHOOSE k \in StampsBefore(f, i) : \A j \in StampsBefore(f, i) : j <= k
       IN log[f][watcher[f].delivered[k]].value

HandledSaveData(f) == Len(watcher'[f].points) = Len(watcher[f].points) + 1

ResetKinds == {"cloud_load", "session_reset", "world_join"}

\* The Watcher of f handles the event of a line of one of the three kinds.
HandledReset(f) ==
  /\ watcher[f].state = "process"
  /\ watcher'[f] # watcher[f]
  /\ log[f][watcher[f].line].kind \in ResetKinds

\* One of the three events was handled before the save-data event of the n-th
\* point, with no other save-data event between the two.
FirstAfterReset(f, n) ==
  LET d == watcher[f].delivered IN
  \E k \in 2..Len(d) : \E j \in 1..k - 1 :
    /\ d[k] = watcher[f].points[n].line
    /\ log[f][d[j]].kind \in ResetKinds
    /\ \A i \in j + 1..k - 1 : log[f][d[i]].kind # "save"

C28_ResetOnDiscontinuity ==
  [][\A f \in Files :
       /\ HandledReset(f) =>
            watcher'[f] = [watcher[f] EXCEPT !.state = "loop",
                                             !.delivered = Append(@, watcher[f].line),
                                             !.medal_rate = MedalRateEMA]
       /\ \A n \in 1..Len(watcher'[f].points) :
            FirstAfterReset(f, n)' =>
              /\ IsNone(watcher'[f].points[n].rate)
              /\ IsNone(watcher'[f].points[n].credit_all_delta_1m)]_vars

\* One of the three events was handled between two saves, the second later
\* than the first: the record of the first save was kept, and the point of the
\* second has no rate although the estimator had a sample before the event.
C28_Witness ==
  \E f \in Files :
    LET w == watcher[f] IN
    /\ Len(w.points) = 2
    /\ FirstAfterReset(f, 2)
    /\ w.points[2].time > w.points[1].time
    /\ IsNone(w.points[2].rate)
    /\ IsNone(w.points[2].credit_all_delta_1m)

\* ===================================================================
\* C29  As stated: every save-data event produces exactly one metrics point,
\*      whatever the Autosave Manager decides, and the point carries
\*      credit_all_delta_1m exactly when the estimator returned a rate, 0
\*      included (C29_FieldWheneverRate).
\*      What the Watcher does: one point per save-data event, and the field is
\*      there exactly when the estimator returned a rate other than 0
\*      (C29_FieldWhenRateNotZero).
\* ===================================================================
\* The save-data events the Watcher of f has handled.
SaveDataHandled(f) ==
  {k \in 1..Len(watcher[f].delivered) : log[f][watcher[f].delivered[k]].kind = "save"}

OnePointPerSaveData(f) ==
  /\ Len(watcher[f].points) = Cardinality(SaveDataHandled(f))
  /\ \A n \in 1..Len(watcher[f].points) :
       \E k \in SaveDataHandled(f) : watcher[f].delivered[k] = watcher[f].points[n].line
  /\ \A n, m \in 1..Len(watcher[f].points) :
       watcher[f].points[n].line = watcher[f].points[m].line => n = m

C29_FieldWheneverRate ==
  \A f \in Files :
    /\ OnePointPerSaveData(f)
    /\ \A n \in 1..Len(watcher[f].points) :
         watcher[f].points[n].credit_all_delta_1m = watcher[f].points[n].rate

C29_FieldWhenRateNotZero ==
  \A f \in Files :
    /\ OnePointPerSaveData(f)
    /\ \A n \in 1..Len(watcher[f].points) :
         LET point == watcher[f].points[n] IN
         /\ ~IsNone(point.credit_all_delta_1m) <=> (~IsNone(point.rate) /\ Val(point.rate) # 0)
         /\ ~IsNone(point.credit_all_delta_1m) => point.credit_all_delta_1m = point.rate

\* Two saves with the same counter, the second later: the estimator returned
\* the rate 0 for the second, and its point has no credit_all_delta_1m.
C29_Witness ==
  \E f \in Files :
    LET w == watcher[f] IN
    /\ Len(w.points) = 2
    /\ w.points[2].rate = Some(0)
    /\ IsNone(w.points[2].credit_all_delta_1m)
    /\ w.points[2].time > w.points[1].time

\* ===================================================================
\* C25  As stated: the state file is replaced atomically, so that no step, a
\*      kill of the process inside a persist included, turns the file on disk
\*      into a truncated or partial one (C25_NeverPartial).
\*      What the store does: _save writes the document in place; the file
\*      after a step is the file before it, the complete new document, or a
\*      partial one (C25_WrittenInPlace).
\* ===================================================================
C25_NeverPartial ==
  [][store_file'.json = "truncated" => store_file.json = "truncated"]_vars

C25_WrittenInPlace ==
  [][store_file' \in {store_file, Document(store_data'), Partial}]_vars

\* The process was killed inside _save when the file held a complete document:
\* the file is partial and the store that was loaded from it is empty, the
\* attempt recorded before the kill forgotten.
C25_Witness ==
  /\ crashes = 1
  /\ store_file = Partial
  /\ store_data = <<>>
  /\ Len(requests) >= 1

\* ===================================================================
\* C26  A start of the store over a state file of the older schema (no version
\*      tag, no hash field) gives, for every user in the file, a state with the
\*      credit_all and the last attempt time of the file and an empty
\*      data_hash; and an update that finds a state with an empty data_hash is
\*      never skipped for identical data.
\* ===================================================================
\* The process starts over the state file as the last _save left it, and that
\* file is a document of the older schema.
StartedOverOldDocument ==
  /\ crashes' # crashes
  /\ \A t \in Tasks : pc[t] # "put_write"
  /\ store_file.json = "valid"
  /\ store_file.version = 1

\* Task t decides, in this step, against the state get() returned to it.
Decides(t) == pc[t] = "check" /\ pc'[t] # "check"

C26_MigrationKeepsState ==
  [][/\ StartedOverOldDocument =>
          /\ DOMAIN store_data' = DOMAIN store_file.users
          /\ \A u \in DOMAIN store_file.users :
               /\ store_data'[u].credit_all = store_file.users[u].credit_all
               /\ store_data'[u].last_attempt_at = store_file.users[u].last_attempt_at
               /\ store_data'[u].data_hash = EmptyHash
     /\ \A t \in Tasks :
          (/\ Decides(t)
           /\ ~IsNone(loc[t].state)
           /\ Val(loc[t].state).data_hash = EmptyHash) => loc'[t].outcome # "same_data"]_vars

\* After a restart over a document of the older schema, an update for one of its
\* users has passed the checks and is about to record its attempt.
C26_Witness ==
  /\ crashes = 1
  /\ store_file.json = "valid"
  /\ store_file.version = 1
  /\ \E t \in Tasks :
       /\ pc[t] = "put_lock"
       /\ ~IsNone(loc[t].state)
       /\ Val(loc[t].state).data_hash = EmptyHash
       /\ Val(loc[t].state).credit_all = store_file.users[Val(arg[t].record).user_id].credit_all

\* ===================================================================
\* C27  The manager keeps one task per file name and replaces it only when
\*      there is none or the one registered is done, so no file name ever has
\*      two Watcher tasks that have not completed; and at a poll, a file within
\*      the recency window whose Watcher has completed gets a new Watcher.
\* ===================================================================
\* The manager registers a new Watcher task for f in this step.
WatcherCreated(f) == watcher'[f].state = "created" /\ watcher'[f] # watcher[f]

\* The manager polls, f is a file of the directory written within the hour.
PolledAndRecent(f) ==
  /\ running = NoneV
  /\ manager = "poll"
  /\ f \in on_disk
  /\ now - mtime[f] <= ONE_HOUR

C27_OneWatcherPerFile ==
  /\ [][\A f \in Files : WatcherCreated(f) => watcher[f].state \in {"absent", "done"}]_vars
  /\ [](\A f \in Files :
          (PolledAndRecent(f) /\ watcher[f].state = "done") => ENABLED ManagerPoll(f))

\* A second Watcher of the file, created after the first, which had delivered
\* lines, has completed; it is reading.
C27_Witness ==
  \E f \in Files :
    /\ earlier[f] # {}
    /\ crashes = 0
    /\ watcher[f].state = "loop"
    /\ now - mtime[f] <= ONE_HOUR

\* ===================================================================
\* C30  A failed write of the file of either store changes nothing but the
\*      file: the state store's map holds the new state whatever the outcome of
\*      _save, update() goes on to create the remote call, and the checks of a
\*      later update are made against the state in memory; a write of the
\*      offset store's file, failed or not, leaves the offsets in memory as
\*      they were.
\* ===================================================================
\* The state in memory for the user of the record task t was called with.
InMemory(t) ==
  LET user_id == Val(arg[t].record).user_id IN
  IF user_id \in DOMAIN store_data THEN Some(store_data[user_id]) ELSE NoneV

\* What is loaded from the state file for that user.
OnFile(t) ==
  LET user_id == Val(arg[t].record).user_id
      users == LoadStore(store_file)
  IN IF user_id \in DOMAIN users THEN Some(users[user_id]) ELSE NoneV

C30_WriteFailureOnlyLogged ==
  [][/\ \A t \in Tasks :
          /\ (pc[t] = "put_write" /\ pc'[t] # "put_write") =>
               /\ pc'[t] = "dispatch"
               /\ store_lock' = NoneV
               /\ InMemory(t)' =
                    Some(CloudSaveState(Val(arg[t].record).data.credit_all, loc[t].now,
                                        loc[t].data_hash))
          /\ (pc[t] = "dispatch" /\ pc'[t] # "dispatch") =>
               /\ Len(requests') = Len(requests) + 1
               /\ requests'[Len(requests')].user_id = Val(arg[t].record).user_id
          /\ (pc[t] = "get_read" /\ pc'[t] # "get_read") => loc'[t].state = InMemory(t)
     /\ offsets_file' # offsets_file => offsets' = offsets]_vars

\* The write of the first save failed and left no document; the second save, an
\* hour later, was checked against the state in memory and is about to be
\* recorded; the offsets in memory are ahead of the offset file.
C30_Witness ==
  \E f \in Files :
    /\ pc[f] = "put_lock"
    /\ Len(requests) = 1
    /\ store_file \in {NoFile, Partial}
    /\ OnFile(f) = NoneV
    /\ ~IsNone(InMemory(f))
    /\ loc[f].state = InMemory(f)
    /\ offsets # offsets_file

\* ===================================================================
\* C31  Store writes and remote calls correspond one to one: the stored state
\*      changes only in the write of an update(), which goes on to create
\*      exactly one remote call and can create one in no other way; the end of
\*      a remote call, whatever its outcome, changes neither the store nor the
\*      calls made, and a call that has ended is never pending again.
\* ===================================================================
\* Task t makes the store write of its update() in this step.
Writes(t) == pc[t] = "put_write" /\ pc'[t] # "put_write"

\* Task t creates the remote call of its update() in this step.
Dispatches(t) == pc[t] = "dispatch" /\ pc'[t] # "dispatch"

\* A remote call ends in this step.
RequestEnds ==
  \E i \in 1..Len(requests) :
    i <= Len(requests') /\ requests[i].status = "pending" /\ requests'[i].status # "pending"

C31_OneCallPerWrite ==
  [][/\ store_data' # store_data => \E t \in Tasks : Writes(t)
     /\ \A t \in Tasks :
          /\ Writes(t) => (pc'[t] = "dispatch" /\ requests' = requests)
          /\ (pc'[t] = "dispatch" /\ pc[t] # "dispatch") => Writes(t)
          /\ Dispatches(t) =>
               /\ pc'[t] = "return"
               /\ requests' = Append(requests, [user_id |-> UserOf(t), status |-> "pending"])
               /\ pending_tasks' = pending_tasks \cup {Len(requests) + 1}
               /\ store_data' = store_data
     /\ requests' # requests =>
          \/ \E t \in Tasks : Dispatches(t)
          \/ /\ RequestEnds
             /\ Len(requests') = Len(requests)
             /\ pending_tasks' \subseteq pending_tasks
             /\ pending_tasks' # pending_tasks
             /\ UNCHANGED <<store_data, store_file, pc>>
     /\ \A i \in 1..Len(requests) :
          requests[i].status # "pending" =>
            /\ i \notin pending_tasks'
            /\ requests'[i] = requests[i]]_vars

\* The only call made for a user failed; a later update for the user wrote the
\* store once more and created the second call, the only one pending.
C31_Witness ==
  /\ Len(requests) = 2
  /\ requests[1].status = "failed"
  /\ requests[2].status = "pending"
  /\ requests[2].user_id = requests[1].user_id
  /\ pending_tasks = {2}
  /\ store_data[requests[2].user_id].last_attempt_at > 0

\* ===================================================================
\* C32  As stated: after a save-data event whose record the Autosave Manager
\*      dispatched, on the normal or the forced path, record_is_dirty is false,
\*      and after one it skipped record_is_dirty is true
\*      (C32_DirtyReflectsOutcome).
\*      What the Watcher does: update() returns no value, so after a save-data
\*      event on the normal path record_is_dirty is true whatever update()
\*      decided, and after one on the forced path it is what it was before
\*      (C32_DirtyWhateverOutcome).
\* ===================================================================
\* The update() called for a save-data event of f returns in this step.
SaveDataUpdateReturns(f) ==
  /\ watcher[f].state = "update"
  /\ watcher'[f].state # "update"
  /\ watcher[f].site \in {"normal", "leave"}
  /\ pc[f] = "return"

C32_DirtyReflectsOutcome ==
  [][\A f \in Files :
       SaveDataUpdateReturns(f) =>
         watcher'[f].record_is_dirty = (loc[f].outcome # "dispatched")]_vars

C32_DirtyWhateverOutcome ==
  [][\A f \in Files :
       SaveDataUpdateReturns(f) =>
         watcher'[f].record_is_dirty =
           IF watcher[f].site = "normal" THEN TRUE ELSE watcher[f].record_is_dirty]_vars

\* The last record was dispatched on the normal path, the store holds its hash,
\* and at the quit event the Watcher found it unsaved and calls update() for it
\* again.
C32_Witness ==
  \E f \in Files :
    /\ watcher[f].state = "update"
    /\ watcher[f].site = "quit"
    /\ watcher[f].record_is_dirty
    /\ Len(requests) = 1
    /\ Stored(WatchUser)
    /\ store_data[WatchUser].data_hash = calc_data_hash(Val(watcher[f].last_record).data)

====
